---- MODULE Spec2Model ----
(***************************************************************************)
(* Shapelet ingestion pipeline: normalizer, validator, SQLite store writer *)
(* and orchestrator, modelled as state machines.                           *)
(*                                                                         *)
(* Python values are tagged records [t |-> type name, v |-> payload].      *)
(* A str is a tuple of one-character strings, a float is an integer count  *)
(* of ten-thousandths, a date is <<year, month, day>>.                     *)
(***************************************************************************)
EXTENDS Integers, Sequences, FiniteSets, TLC

VARIABLES
    db,         \* the store as the open connection sees it
    disk,       \* the store as committed (what survives a process stop)
    call,       \* locals of the insert_shapelets call in progress
    last,       \* the last finished or interrupted insert_shapelets call
    files,      \* the input directory: discovered paths, sorted
    pc,         \* position of run(): idle, loop, done, aborted, exit0, exit1
    args,       \* the arguments of the current invocation
    run,        \* locals of run(): selected files, index, counters, run_id
    runLog,     \* one entry per ended invocation
    probe       \* a helper called on its own: its input, its steps, its result

vars == <<db, disk, call, last, files, pc, args, run, runLog, probe>>

---------------------------------------------------------------------------
(* Bounds of the model *)
MaxCalls == 3
MaxEdits == 2

MaxRecords == 2
MaxBatch == 2
MaxRows == 3
MaxFiles == 2
MaxRuns == 2
MaxTokens == 3

---------------------------------------------------------------------------
(* Python values *)

PyInt(n) == [t |-> "int", v |-> n]
PyFloat(x) == [t |-> "float", v |-> x]
PyStr(s) == [t |-> "str", v |-> s]
PyNone == [t |-> "NoneType", v |-> 0]
PyBool(n) == [t |-> "bool", v |-> n]
PyDate(y, m, d) == [t |-> "date", v |-> <<y, m, d>>]
PyDateTime(y, m, d, h) == [t |-> "datetime", v |-> <<y, m, d, h>>]
PyList(s) == [t |-> "list", v |-> s]
NdArray(s) == [t |-> "ndarray", v |-> s]
NpInt(n) == [t |-> "int64", v |-> n]
NpFloat(x) == [t |-> "float64", v |-> x]
Raise(e) == [t |-> "raise", v |-> e]

Min(a, b) == IF a < b THEN a ELSE b

\* F applied to the value of x, x evaluated once
Bind(x, F(_)) == CHOOSE r \in {F(v) : v \in {x}} : TRUE

\* a loop over seq that carries acc: Op(acc, item) for each item in order
RECURSIVE Fold(_, _, _)
Fold(Op(_, _), acc, seq) ==
    IF seq = <<>> THEN acc
    ELSE Bind(Op(acc, Head(seq)),
              LAMBDA a : Bind(Tail(seq), LAMBDA rest : Fold(Op, a, rest)))

DigitChars == <<"0", "1", "2", "3", "4", "5", "6", "7", "8", "9">>

Digits == {DigitChars[i] : i \in 1..10}

RECURSIVE NatToStr(_)
NatToStr(n) ==
    IF n < 10 THEN <<DigitChars[n + 1]>>
    ELSE NatToStr(n \div 10) \o <<DigitChars[(n % 10) + 1]>>

\* str(int)
IntToStr(n) == IF n < 0 THEN <<"-">> \o NatToStr(-n) ELSE NatToStr(n)

\* n written with at least w digits, zero padded on the left
RECURSIVE ZeroPad(_, _)
ZeroPad(s, w) == IF Len(s) >= w THEN s ELSE ZeroPad(<<"0">> \o s, w)

\* the fraction digits of a float, trailing zeros dropped, one digit kept
RECURSIVE StripZeros(_)
StripZeros(s) ==
    IF Len(s) > 1 /\ s[Len(s)] = "0" THEN StripZeros(SubSeq(s, 1, Len(s) - 1))
    ELSE s

\* repr(float), for a float given in ten-thousandths
FloatRepr(x) ==
    LET a == IF x < 0 THEN -x ELSE x
    IN  (IF x < 0 THEN <<"-">> ELSE <<>>)
        \o NatToStr(a \div 10000) \o <<".">>
        \o StripZeros(ZeroPad(NatToStr(a % 10000), 4))

\* format() of a value inside an f-string
Format(val) ==
    CASE val.t = "str" -> val.v
      [] val.t = "int" -> IntToStr(val.v)
      [] val.t = "int64" -> IntToStr(val.v)
      [] val.t = "float" -> FloatRepr(val.v)
      [] val.t = "bool" ->
            IF val.v = 1 THEN <<"T", "r", "u", "e">>
            ELSE <<"F", "a", "l", "s", "e">>
      [] val.t = "NoneType" -> <<"N", "o", "n", "e">>

\* str.split("_")
RECURSIVE Split(_)
Split(s) ==
    IF \A i \in 1..Len(s) : s[i] # "_" THEN <<s>>
    ELSE LET k == CHOOSE i \in 1..Len(s) :
                      s[i] = "_" /\ \A j \in 1..(i - 1) : s[j] # "_"
         IN  <<SubSeq(s, 1, k - 1)>> \o Split(SubSeq(s, k + 1, Len(s)))

\* str.isdigit()
IsDigit(s) == Len(s) > 0 /\ \A i \in 1..Len(s) : s[i] \in Digits

\* date.isoformat(): YYYY-MM-DD
IsoFormat(d) ==
    PyStr(ZeroPad(NatToStr(d.v[1]), 4) \o <<"-">>
          \o ZeroPad(NatToStr(d.v[2]), 2) \o <<"-">>
          \o ZeroPad(NatToStr(d.v[3]), 2))

\* json.dumps of a list of floats: "[1.5, 2.0]"
RECURSIVE JsonItems(_)
JsonItems(s) ==
    IF s = <<>> THEN <<>>
    ELSE IF Len(s) = 1 THEN FloatRepr(s[1])
    ELSE FloatRepr(s[1]) \o <<",", " ">> \o JsonItems(Tail(s))

JsonDumps(val) == PyStr(<<"[">> \o JsonItems(val.v) \o <<"]">>)

\* dict.get(key) with the default None
Get(rec, key) == IF key \in DOMAIN rec THEN rec[key] ELSE PyNone

---------------------------------------------------------------------------
(* The store: the four tables of _SCHEMA_SQL *)

EmptyStore ==
    [sites |-> {}, pollutants |-> {}, shapelets |-> <<>>, ingestion_runs |-> <<>>]

\* "{state}_{county}_{site_num}"
SiteKey(rec) ==
    Format(rec.state) \o <<"_">> \o Format(rec.county) \o <<"_">>
    \o Format(rec.site_num)

\* INSERT OR IGNORE INTO sites: the first sighting stays
upsert_site_ignore(d, rec) ==
    IF \E s \in d.sites : s.site_key = PyStr(SiteKey(rec)) THEN d
    ELSE [d EXCEPT !.sites =
            @ \cup {[site_key |-> PyStr(SiteKey(rec)), state |-> rec.state,
                     county |-> rec.county, site_num |-> rec.site_num,
                     latitude |-> rec.latitude, longitude |-> rec.longitude]}]

\* return site_key
upsert_site_return(rec) == PyStr(SiteKey(rec))

\* INSERT INTO sites ... ON CONFLICT(site_key) DO UPDATE SET latitude, longitude
upsert_site(d, rec) ==
    LET sk == PyStr(SiteKey(rec))
        hit == {s \in d.sites : s.site_key = sk}
        row == [site_key |-> sk, state |-> rec.state, county |-> rec.county,
                site_num |-> rec.site_num, latitude |-> rec.latitude,
                longitude |-> rec.longitude]
    IN  [d EXCEPT !.sites =
            IF hit = {} THEN @ \cup {row}
            ELSE (@ \ hit) \cup {[s EXCEPT !.latitude = rec.latitude,
                                           !.longitude = rec.longitude] : s \in hit}]

\* INSERT OR REPLACE INTO pollutants (parameter_code)
upsert_pollutant_replace(d, parameter_code) ==
    IF parameter_code = PyNone THEN d
    ELSE [d EXCEPT !.pollutants =
            {p \in @ : p.parameter_code # parameter_code}
            \cup {[parameter_code |-> parameter_code, name |-> PyNone,
                    unit |-> PyNone]}]

\* INSERT OR IGNORE INTO pollutants (parameter_code)
upsert_pollutant(d, parameter_code) ==
    IF parameter_code = PyNone THEN d
    ELSE IF \E p \in d.pollutants : p.parameter_code = parameter_code THEN d
    ELSE [d EXCEPT !.pollutants =
            @ \cup {[parameter_code |-> parameter_code, name |-> PyNone,
                     unit |-> PyNone]}]

\* the first purely numeric token of pattern_type, or None
RECURSIVE FirstDigitPart(_)
FirstDigitPart(parts) ==
    IF parts = <<>> THEN PyNone
    ELSE IF IsDigit(Head(parts)) THEN PyStr(Head(parts))
    ELSE FirstDigitPart(Tail(parts))

\* the last purely numeric token, or None
extract_param_code_last(pattern_type) ==
    LET parts == Split(pattern_type.v)
        numeric == {i \in 1..Len(parts) : IsDigit(parts[i])}
    IN  IF numeric = {} THEN PyNone
        ELSE PyStr(parts[CHOOSE i \in numeric : \A j \in numeric : j <= i])

extract_param_code(pattern_type) == FirstDigitPart(Split(pattern_type.v))

\* the tuple bound to the INSERT statement for one record
DbRow(rec) ==
    [dataset_key |-> rec.dataset_key,
     shapelet_id |-> rec.shapelet_id,
     site_key |-> PyStr(SiteKey(rec)),
     parameter_code |->
        extract_param_code(IF "pattern_type" \in DOMAIN rec
                           THEN rec.pattern_type ELSE PyStr(<<>>)),
     year |-> rec.year,
     start_date |-> IsoFormat(rec.start_date),
     end_date |-> IsoFormat(rec.end_date),
     length_days |-> rec.length_days,
     pattern_type |-> Get(rec, "pattern_type"),
     data_type |-> Get(rec, "data_type"),
     quality |-> Get(rec, "quality"),
     shapelet_values |-> JsonDumps(rec.shapelet_values),
     source_file |-> Get(rec, "source_file")]

NotNullColumns ==
    {"dataset_key", "shapelet_id", "site_key", "year", "start_date",
     "end_date", "length_days", "shapelet_values"}

\* a table without the UNIQUE constraint
UniqueConflictNone(table, row) == FALSE

\* UNIQUE(dataset_key, shapelet_id, source_file): SQL NULLs are distinct
UniqueConflict(table, row) ==
    \E i \in 1..Len(table) :
        /\ table[i].dataset_key = row.dataset_key
        /\ table[i].shapelet_id = row.shapelet_id
        /\ table[i].source_file = row.source_file
        /\ row.source_file # PyNone

\* INSERT OR IGNORE INTO shapelets, one row
InsertOrIgnore(d, row) ==
    IF \/ UniqueConflict(d.shapelets, row)
       \/ \E c \in NotNullColumns : row[c] = PyNone
    THEN d
    ELSE [d EXCEPT !.shapelets =
            Append(@, [id |-> Len(@) + 1] @@ row)]

\* conn.executemany(INSERT OR IGNORE ..., db_rows)
ExecuteMany(d, rows) == Fold(InsertOrIgnore, d, rows)

\* records[start : start + batch_size]
Chunk(records, start, batch_size) ==
    SubSeq(records, start + 1, Min(start + batch_size, Len(records)))

\* body of the first loop of a batch: upsert a site not yet seen in this call
UpsertSiteOnce(acc, rec) ==
    Bind(SiteKey(rec), LAMBDA sk :
        IF sk \notin acc.sites_seen
        THEN [db |-> upsert_site(acc.db, rec),
              sites_seen |-> acc.sites_seen \cup {sk}]
        ELSE acc)

\* the first loop of a batch, forgetting the sites of the earlier batches
UpsertSitesPerBatch(d, chunk, sites_seen) ==
    Fold(UpsertSiteOnce, [db |-> d, sites_seen |-> {}], chunk)

UpsertSites(d, chunk, sites_seen) ==
    Fold(UpsertSiteOnce, [db |-> d, sites_seen |-> sites_seen], chunk)

\* body of the second loop of a batch: upsert an unseen pollutant, add the row
BuildRow(acc, rec) ==
    Bind(DbRow(rec), LAMBDA row :
        IF /\ row.parameter_code # PyNone
           /\ row.parameter_code.v # <<>>
           /\ row.parameter_code \notin acc.pollutants_seen
        THEN [db |-> upsert_pollutant(acc.db, row.parameter_code),
              pollutants_seen |-> acc.pollutants_seen \cup {row.parameter_code},
              db_rows |-> Append(acc.db_rows, row)]
        ELSE [acc EXCEPT !.db_rows = Append(@, row)])

BuildRows(d, chunk, pollutants_seen, db_rows) ==
    Fold(BuildRow,
         [db |-> d, pollutants_seen |-> pollutants_seen, db_rows |-> db_rows],
         chunk)

\* counting the rows the statement really added
CountRowsNew(rows_inserted, d, db_rows) ==
    rows_inserted + Len(ExecuteMany(d, db_rows).shapelets) - Len(d.shapelets)

\* rows_inserted += len(db_rows)
CountRows(rows_inserted, d, db_rows) == rows_inserted + Len(db_rows)

\* a batch that goes to its rows without upserting its sites
BatchSitesSkipped(c, d) ==
    [c |-> [c EXCEPT !.phase = "rows"], db |-> d, commit |-> FALSE]

\* one iteration of the batch loop, on the locals c and the store d
BatchSites(c, d) ==
    Bind(UpsertSites(d, Chunk(c.records, c.start, c.batch_size), c.sites_seen),
         LAMBDA r :
            [c |-> [c EXCEPT !.sites_seen = r.sites_seen, !.phase = "rows"],
             db |-> r.db, commit |-> FALSE])

BatchRows(c, d) ==
    Bind(BuildRows(d, Chunk(c.records, c.start, c.batch_size),
                   c.pollutants_seen, <<>>),
         LAMBDA r :
            [c |-> [c EXCEPT !.pollutants_seen = r.pollutants_seen,
                             !.db_rows = r.db_rows, !.phase = "exec"],
             db |-> r.db, commit |-> FALSE])

\* the third part of a batch, with a commit moved inside the loop
BatchExecCommitting(c, d) ==
    [c |-> [c EXCEPT !.rows_inserted = CountRows(@, d, c.db_rows),
                     !.db_rows = <<>>,
                     !.batches = @ + 1,
                     !.start = @ + c.batch_size,
                     !.phase = IF c.start + c.batch_size < Len(c.records)
                               THEN "sites" ELSE "commit"],
     db |-> ExecuteMany(d, c.db_rows), commit |-> TRUE]

\* the third part of a batch: executemany, count; the commit comes after the loop
BatchExec(c, d) ==
    [c |-> [c EXCEPT !.rows_inserted = CountRows(@, d, c.db_rows),
                     !.db_rows = <<>>,
                     !.batches = @ + 1,
                     !.start = @ + c.batch_size,
                     !.phase = IF c.start + c.batch_size < Len(c.records)
                               THEN "sites" ELSE "commit"],
     db |-> ExecuteMany(d, c.db_rows), commit |-> FALSE]

\* the locals of insert_shapelets at entry
NewCall(d, records, batch_size) ==
    [records |-> records, batch_size |-> batch_size, start |-> 0, before |-> d,
     sites_seen |-> {}, pollutants_seen |-> {}, rows_inserted |-> 0,
     db_rows |-> <<>>, batches |-> 0,
     phase |-> IF Len(records) > 0 THEN "sites" ELSE "commit"]

NoCall == [phase |-> "idle"]

\* conn.commit() and return rows_inserted
CommitCall(c, d) ==
    [c |-> NoCall, db |-> d, commit |-> TRUE,
     last |-> [kind |-> "returned", records |-> c.records,
               batch_size |-> c.batch_size, batches |-> c.batches,
               before |-> c.before, ret |-> c.rows_inserted]]

\* the whole batch loop, run to the commit
RECURSIVE RunBatches(_, _)
RunBatches(c, d) ==
    IF c.phase = "commit" THEN [c |-> c, db |-> d]
    ELSE Bind(BatchSites(c, d), LAMBDA s :
         Bind(BatchRows(s.c, s.db), LAMBDA r :
         Bind(BatchExec(r.c, r.db), LAMBDA e : RunBatches(e.c, e.db))))

\* the default of insert_shapelets' batch_size
BatchSizeDefault == 500

\* insert_shapelets(conn, records, batch_size=...): the store and the return value
insert_shapelets(d, records, batch_size) ==
    Bind(NewCall(d, records, batch_size), LAMBDA c :
    Bind(RunBatches(c, c.before), LAMBDA r :
        [db |-> r.db, ret |-> r.c.rows_inserted]))

---------------------------------------------------------------------------
(* The record normalizer (helpers/records.py) *)

IsRaise(val) == "t" \in DOMAIN val /\ val.t = "raise"

\* raw[key]
Lookup(raw, key) == IF key \in DOMAIN raw THEN raw[key] ELSE Raise("KeyError")

RECURSIVE StrToNat(_)
StrToNat(s) ==
    IF s = <<>> THEN 0
    ELSE 10 * StrToNat(SubSeq(s, 1, Len(s) - 1))
         + (CHOOSE k \in 0..9 : DigitChars[k + 1] = s[Len(s)])

\* float // 1, rounded toward zero, for a float in ten-thousandths
Trunc(x) == IF x < 0 THEN -((-x) \div 10000) ELSE x \div 10000

\* a cast that hands the value back as it came
to_int_same(value) == value

\* int(value); of a str, the plain digit strings are modelled
to_int(value) ==
    CASE value.t = "raise" -> value
      [] value.t \in {"int", "bool", "int64"} -> PyInt(value.v)
      [] value.t \in {"float", "float64"} -> PyInt(Trunc(value.v))
      [] value.t = "str" ->
            IF IsDigit(value.v) THEN PyInt(StrToNat(value.v))
            ELSE Raise("ValueError")
      [] OTHER -> Raise("TypeError")

\* float(value)
to_float(value) ==
    CASE value.t = "raise" -> value
      [] value.t \in {"int", "bool", "int64"} -> PyFloat(value.v * 10000)
      [] value.t \in {"float", "float64"} -> PyFloat(value.v)
      [] value.t = "str" ->
            IF IsDigit(value.v) THEN PyFloat(StrToNat(value.v) * 10000)
            ELSE Raise("ValueError")
      [] OTHER -> Raise("TypeError")

\* str(value)
to_str(value) == IF IsRaise(value) THEN value ELSE PyStr(Format(value))

to_date(value) ==
    CASE value.t = "raise" -> value
      [] value.t = "datetime" -> PyDate(value.v[1], value.v[2], value.v[3])
      [] value.t = "date" -> value
      [] OTHER -> Raise("TypeError")

\* a 0-d array's tolist() is a scalar; list(str) is its characters
ndarray_to_list(arr) ==
    CASE arr.t = "raise" -> arr
      [] arr.t = "ndarray" -> PyList(arr.v)
      [] arr.t = "ndarray0" -> PyFloat(arr.v)
      [] arr.t \in {"list", "tuple", "str"} -> PyList(arr.v)
      [] OTHER -> Raise("TypeError")

\* the order in which the dict display evaluates its values
FlattenOrder ==
    <<"shapelet_id", "state", "county", "site_num", "latitude", "longitude",
      "location", "year", "start_date", "end_date", "length_days",
      "pattern_type", "data_type", "quality", "shapelet_values">>

\* the record, or the first exception raised while building it
flatten_shapelet(dataset_key, raw, source_file) ==
    Bind(   [dataset_key |-> dataset_key,
             shapelet_id |-> to_int(Lookup(raw, "shapelet_id")),
             source_file |-> source_file,
             state |-> to_str(Lookup(raw, "state")),
             county |-> to_str(Lookup(raw, "county")),
             site_num |-> to_int(Lookup(raw, "site_num")),
             latitude |-> to_float(Lookup(raw, "latitude")),
             longitude |-> to_float(Lookup(raw, "longitude")),
             location |-> to_str(IF "location" \in DOMAIN raw
                                 THEN raw.location ELSE PyStr(<<>>)),
             year |-> to_int(Lookup(raw, "year")),
             start_date |-> to_date(Lookup(raw, "start_date")),
             end_date |-> to_date(Lookup(raw, "end_date")),
             length_days |-> to_int(Lookup(raw, "length_days")),
             pattern_type |-> to_str(Lookup(raw, "pattern_type")),
             data_type |-> to_str(Lookup(raw, "data_type")),
             quality |-> to_float(Lookup(raw, "quality")),
             shapelet_values |-> ndarray_to_list(Lookup(raw, "shapelet"))],
        LAMBDA rec :
            LET bad == {i \in 1..Len(FlattenOrder) : IsRaise(rec[FlattenOrder[i]])}
            IN  IF bad = {} THEN rec
                ELSE rec[FlattenOrder[CHOOSE i \in bad : \A j \in bad : i <= j]])

\* the inner loop of iter_records, consumed by list(): the records flattened
\* so far, and whether an exception ended the walk
FlattenAll(dataset_key, shapelets, source_file, acc) ==
    Fold(LAMBDA a, shapelet :
            IF a.raised THEN a
            ELSE Bind(flatten_shapelet(dataset_key, shapelet, source_file),
                      LAMBDA r : IF IsRaise(r) THEN [a EXCEPT !.raised = TRUE]
                                 ELSE [a EXCEPT !.records = Append(@, r)]),
         acc, shapelets)

\* a loaded mapping is [t |-> "dict", v |-> <<key, value>> pairs in order]
IterItems(items, source_file, acc) ==
    Fold(LAMBDA a, item :
            IF a.raised THEN a
            ELSE IF item[2].t \notin {"list", "tuple"}
            THEN [a EXCEPT !.raised = TRUE]
            ELSE FlattenAll(item[1], item[2].v, source_file, a),
         acc, items)

iter_records(data, source_file) ==
    IF data.t # "dict" THEN [raised |-> TRUE, records |-> <<>>]
    ELSE IterItems(data.v, source_file, [raised |-> FALSE, records |-> <<>>])

---------------------------------------------------------------------------
(* The record validator (helpers/validator.py) *)

YearMin == 1900
YearMax == 2100
LengthDaysMin == 1
LatitudeMax == 90
LongitudeMax == 180

Field(name, expected, required) ==
    [field |-> name, expected |-> expected, required |-> required]

Schema ==
    <<Field("dataset_key", <<"str">>, TRUE),
      Field("shapelet_id", <<"int">>, TRUE),
      Field("state", <<"str">>, TRUE),
      Field("county", <<"str">>, TRUE),
      Field("site_num", <<"int">>, TRUE),
      Field("latitude", <<"float">>, TRUE),
      Field("longitude", <<"float">>, TRUE),
      Field("location", <<"str">>, FALSE),
      Field("year", <<"int">>, TRUE),
      Field("start_date", <<"date">>, TRUE),
      Field("end_date", <<"date">>, TRUE),
      Field("length_days", <<"int">>, TRUE),
      Field("pattern_type", <<"str">>, TRUE),
      Field("data_type", <<"str">>, TRUE),
      Field("quality", <<"float">>, TRUE),
      Field("shapelet_values", <<"list">>, TRUE),
      Field("source_file", <<"str", "NoneType">>, FALSE)>>

\* the runtime types that are instances of a declared type
Subtypes(ty) ==
    CASE ty = "int" -> {"int", "bool"}
      [] ty = "float" -> {"float", "float64"}
      [] ty = "date" -> {"date", "datetime"}
      [] OTHER -> {ty}

\* isinstance(value, expected), expected a type or a tuple of types
IsInstance(value, expected) ==
    \E i \in 1..Len(expected) : value.t \in Subtypes(expected[i])

Violation(kind, field, detail) ==
    [kind |-> kind, field |-> field, detail |-> detail]

\* the entries of a sequence that satisfy Test, each mapped by Msg
MapSelect(seq, Test(_), Msg(_)) ==
    LET kept == SelectSeq(seq, Test)
    IN  [i \in 1..Len(kept) |-> Msg(kept[i])]

MissingViolations(record) ==
    MapSelect(Schema,
              LAMBDA e : e.required /\ e.field \notin DOMAIN record,
              LAMBDA e : Violation("missing required field", e.field, <<>>))

TypeViolations(record) ==
    MapSelect(Schema,
              LAMBDA e : /\ e.field \in DOMAIN record
                         /\ ~(record[e.field] = PyNone /\ ~e.required)
                         /\ ~IsInstance(record[e.field], e.expected),
              LAMBDA e : Violation("expected", e.field,
                                   e.expected \o <<record[e.field].t>>))

Has(record, field, ty) ==
    field \in DOMAIN record /\ IsInstance(record[field], <<ty>>)

\* a < b on two dates or on two datetimes: year, month, day (, hour) in order
DateLess(a, b) ==
    \E i \in 1..Len(a.v) :
        /\ \A j \in 1..(i - 1) : a.v[j] = b.v[j]
        /\ a.v[i] < b.v[i]

\* a date and a datetime do not compare: `<` raises TypeError
DateCompareRaises(record) ==
    /\ Has(record, "start_date", "date")
    /\ Has(record, "end_date", "date")
    /\ record.start_date.t # record.end_date.t

DomainViolations(record) ==
    (IF Has(record, "year", "int")
        /\ ~(YearMin <= record.year.v /\ record.year.v <= YearMax)
     THEN <<Violation("year out of range", "year", Format(record.year))>>
     ELSE <<>>)
    \o
    (IF Has(record, "length_days", "int") /\ record.length_days.v < LengthDaysMin
     THEN <<Violation("length_days must be >= 1", "length_days",
                      Format(record.length_days))>>
     ELSE <<>>)
    \o
    (IF Has(record, "latitude", "float")
        /\ ~(-LatitudeMax * 10000 <= record.latitude.v
             /\ record.latitude.v <= LatitudeMax * 10000)
     THEN <<Violation("latitude out of range", "latitude",
                      FloatRepr(record.latitude.v))>>
     ELSE <<>>)
    \o
    (IF Has(record, "longitude", "float")
        /\ ~(-LongitudeMax * 10000 <= record.longitude.v
             /\ record.longitude.v <= LongitudeMax * 10000)
     THEN <<Violation("longitude out of range", "longitude",
                      FloatRepr(record.longitude.v))>>
     ELSE <<>>)
    \o
    (IF Has(record, "start_date", "date") /\ Has(record, "end_date", "date")
        /\ DateLess(record.end_date, record.start_date)
     THEN <<Violation("end_date is before start_date", "end_date", <<>>)>>
     ELSE <<>>)
    \o
    (IF Has(record, "shapelet_values", "list")
        /\ Len(record.shapelet_values.v) = 0
     THEN <<Violation("shapelet_values is empty", "shapelet_values", <<>>)>>
     ELSE <<>>)

\* (is_valid, errors), or the TypeError of the date comparison
validate_record(record) ==
    IF DateCompareRaises(record) THEN Raise("TypeError")
    ELSE LET errors == MissingViolations(record) \o TypeViolations(record)
                       \o DomainViolations(record)
         IN  [ok |-> Len(errors) = 0, errors |-> errors]

---------------------------------------------------------------------------
(* The filename grammar (helpers/parser.py) and the loader (helpers/loader.py) *)

UpperLetters ==
    <<"A", "B", "C", "D", "E", "F", "G", "H", "I", "J", "K", "L", "M",
      "N", "O", "P", "Q", "R", "S", "T", "U", "V", "W", "X", "Y", "Z">>

LowerLetters ==
    <<"a", "b", "c", "d", "e", "f", "g", "h", "i", "j", "k", "l", "m",
      "n", "o", "p", "q", "r", "s", "t", "u", "v", "w", "x", "y", "z">>

Letters == {UpperLetters[i] : i \in 1..26} \cup {LowerLetters[i] : i \in 1..26}

\* str.lower()
Lower(s) ==
    [i \in 1..Len(s) |->
        IF \E k \in 1..26 : UpperLetters[k] = s[i]
        THEN LowerLetters[CHOOSE k \in 1..26 : UpperLetters[k] = s[i]]
        ELSE s[i]]

\* Path.suffix: from the last dot of the name, unless the name starts with it
Suffix(name) ==
    LET dots == {i \in 2..Len(name) : name[i] = "."}
    IN  IF dots = {} THEN <<>>
        ELSE SubSeq(name, CHOOSE i \in dots : \A j \in dots : j <= i, Len(name))

EndsWith(s, suffix) ==
    Len(s) >= Len(suffix)
    /\ SubSeq(s, Len(s) - Len(suffix) + 1, Len(s)) = suffix

DotPkl == <<".", "p", "k", "l">>
DotZip == <<".", "z", "i", "p">>
ShapeletsPkl == <<"_", "s", "h", "a", "p", "e", "l", "e", "t", "s", ".", "p", "k", "l", "_">>

\* _FILENAME_RE, from the county on: the county and site number lie between
\* the last two underscores before "_shapelets.pkl_YYYY_CCC.pkl"
FilenameMatch(stem) ==
    LET n == IF Len(stem) > 0 /\ stem[Len(stem)] = "\n"
             THEN Len(stem) - 1 ELSE Len(stem)
        t == n - 26
    IN  IF t < 6 THEN {}
        ELSE
        {m \in [a : 2..(t - 1), b : 2..(t - 1)] :
            /\ m.a + 1 < m.b
            /\ m.b < t - 1
            /\ \A i \in 1..(m.a - 1) : stem[i] # "\n"
            /\ stem[m.a] = "_"
            /\ \A i \in (m.a + 1)..(m.b - 1) : stem[i] \in Letters \cup {" "}
            /\ stem[m.b] = "_"
            /\ \A i \in (m.b + 1)..(t - 1) : stem[i] \in Digits
            /\ SubSeq(stem, t, t + 14) = ShapeletsPkl
            /\ \A i \in (t + 15)..(t + 18) : stem[i] \in Digits
            /\ stem[t + 19] = "_"
            /\ \A i \in (t + 20)..(t + 22) : stem[i] \in Digits
            /\ SubSeq(stem, t + 23, t + 26) = DotPkl}

\* Path(name).name: the last component of the path that is not empty or "."
RECURSIVE PathName(_)
PathName(name) ==
    IF name = <<>> THEN <<>>
    ELSE IF name[Len(name)] = "/" THEN PathName(SubSeq(name, 1, Len(name) - 1))
    ELSE IF name = <<".">> THEN <<>>
    ELSE IF Len(name) >= 2 /\ SubSeq(name, Len(name) - 1, Len(name)) = <<"/", ".">>
         THEN PathName(SubSeq(name, 1, Len(name) - 2))
    ELSE LET slashes == {i \in 1..Len(name) : name[i] = "/"}
         IN  IF slashes = {} THEN name
             ELSE SubSeq(name, 1 + (CHOOSE i \in slashes : \A j \in slashes : j <= i),
                         Len(name))

\* the match of _FILENAME_RE on the stem, as its groups
FilenameGroups(stem) ==
    LET ms == FilenameMatch(stem)
        n == IF Len(stem) > 0 /\ stem[Len(stem)] = "\n"
             THEN Len(stem) - 1 ELSE Len(stem)
        t == n - 26
    IN  IF ms = {} THEN Raise("ValueError")
        ELSE LET m == CHOOSE x \in ms : \A y \in ms : x.a <= y.a
             IN  [state |-> PyStr(SubSeq(stem, 1, m.a - 1)),
                  county |-> PyStr(SubSeq(stem, m.a + 1, m.b - 1)),
                  site_num |-> PyInt(StrToNat(SubSeq(stem, m.b + 1, t - 1))),
                  year |-> PyInt(StrToNat(SubSeq(stem, t + 15, t + 18))),
                  chunk |-> PyInt(StrToNat(SubSeq(stem, t + 20, t + 22)))]

parse_filename(name) == FilenameGroups(PathName(name))

\* \w, on the characters of the model
WordChars == Letters \cup Digits \cup {"_"}

\* the position of the first underscore after position i, or 0
NextUnderscore(s, i) ==
    LET later == {j \in (i + 1)..Len(s) : s[j] = "_"}
    IN  IF i = 0 \/ later = {} THEN 0
        ELSE CHOOSE j \in later : \A k \in later : j <= k

\* the token between the underscores at i and j is not empty and drawn from chars
TokenOf(s, i, j, chars) ==
    /\ i > 0
    /\ j > i + 1
    /\ \A k \in (i + 1)..(j - 1) : s[k] \in chars

\* _DATASET_KEY_RE: a is the underscore after the state, f the one after the
\* duration; the tokens between them hold no underscore
DatasetKeyMatch(key) ==
    LET n == IF Len(key) > 0 /\ key[Len(key)] = "\n"
             THEN Len(key) - 1 ELSE Len(key)
    IN  {m \in [a : 2..n, f : 2..n] :
            LET b == NextUnderscore(key, m.a)
                c == NextUnderscore(key, b)
                d == NextUnderscore(key, c)
                e == NextUnderscore(key, d)
            IN  /\ key[m.a] = "_"
                /\ \A i \in 1..(m.a - 1) : key[i] # "\n"
                /\ TokenOf(key, m.a, b, Letters \cup {" "})
                /\ TokenOf(key, b, c, Digits)
                /\ TokenOf(key, c, d, {LowerLetters[i] : i \in 1..26})
                /\ TokenOf(key, d, e, Digits)
                /\ key[m.f] = "_"
                /\ TokenOf(key, e, m.f, WordChars)
                /\ m.f + 6 <= n
                /\ \A i \in (m.f + 1)..(m.f + 4) : key[i] \in Digits
                /\ key[m.f + 5] = "_"
                /\ \A i \in (m.f + 6)..n : key[i] # "\n"}

\* the state as short as it can be, the duration as long as it can be
parse_dataset_key(key) ==
    LET ms == DatasetKeyMatch(key)
        n == IF Len(key) > 0 /\ key[Len(key)] = "\n"
             THEN Len(key) - 1 ELSE Len(key)
    IN  IF ms = {} THEN Raise("ValueError")
        ELSE LET m == CHOOSE x \in ms : \A y \in ms :
                          x.a < y.a \/ (x.a = y.a /\ x.f >= y.f)
                 b == NextUnderscore(key, m.a)
                 c == NextUnderscore(key, b)
                 d == NextUnderscore(key, c)
                 e == NextUnderscore(key, d)
             IN  [state |-> PyStr(SubSeq(key, 1, m.a - 1)),
                  county |-> PyStr(SubSeq(key, m.a + 1, b - 1)),
                  site_num |-> PyInt(StrToNat(SubSeq(key, b + 1, c - 1))),
                  frequency |-> PyStr(SubSeq(key, c + 1, d - 1)),
                  parameter_code |-> PyStr(SubSeq(key, d + 1, e - 1)),
                  duration |-> PyStr(SubSeq(key, e + 1, m.f - 1)),
                  year |-> PyInt(StrToNat(SubSeq(key, m.f + 1, m.f + 4))),
                  agg_method |-> PyStr(SubSeq(key, m.f + 6, n))]

\* a file's pickle payload: the object it unpickles to, or the exception
load_single_pkl(f) ==
    IF Suffix(f.name) # DotPkl THEN Raise("ValueError") ELSE f.content

\* the first member whose lower-cased name ends in .pkl
load_zipped_pkl(f) ==
    LET pkl_members ==
            SelectSeq(f.content.v, LAMBDA m : EndsWith(Lower(m[1]), DotPkl))
    IN  IF pkl_members = <<>> THEN Raise("ValueError")
        ELSE pkl_members[1][2]

load_from_path(f) ==
    LET ext == Lower(Suffix(f.name))
    IN  CASE ext = DotZip -> load_zipped_pkl(f)
          [] ext = DotPkl -> load_single_pkl(f)
          [] OTHER -> Raise("ValueError")

RECURSIVE SortByPath(_)
SortByPath(fs) ==
    IF fs = {} THEN <<>>
    ELSE LET f == CHOOSE x \in fs : \A y \in fs : x.path <= y.path
         IN  <<f>> \o SortByPath(fs \ {f})

\* the data files of the directory, sorted by path
discover_files(directory) ==
    SortByPath({f \in directory : Lower(Suffix(f.name)) \in {DotPkl, DotZip}})

---------------------------------------------------------------------------
(* The store used directly: insert_shapelets called on lists of flat       *)
(* records, one batch phase per step, and the process stopping in between  *)

BaseRec ==
    [dataset_key |-> PyStr(<<"k">>), shapelet_id |-> PyInt(0),
     source_file |-> PyStr(<<"f">>),
     state |-> PyStr(<<"T", "X">>), county |-> PyStr(<<"H">>),
     site_num |-> PyInt(4),
     latitude |-> PyFloat(100000), longitude |-> PyFloat(-950000),
     location |-> PyStr(<<>>),
     year |-> PyInt(2010),
     start_date |-> PyDate(2010, 1, 1), end_date |-> PyDate(2010, 1, 7),
     length_days |-> PyInt(7),
     pattern_type |-> PyStr(<<"d", "_", "4", "2">>),
     data_type |-> PyStr(<<"z">>),
     quality |-> PyFloat(5000),
     shapelet_values |-> PyList(<<15000, 20000>>)]

\* a second shapelet of the same site, seen at another latitude
RecSameSite == [BaseRec EXCEPT !.shapelet_id = PyInt(1), !.latitude = PyFloat(200000)]

\* a record without provenance, of another site, with no pollutant code
RecNoSource ==
    [BaseRec EXCEPT !.source_file = PyNone, !.site_num = PyInt(5),
                    !.pattern_type = PyStr(<<"d">>)]

StoreRecords == {BaseRec, RecSameSite, RecNoSource}

RecordLists == UNION {[1..n -> StoreRecords] : n \in 0..MaxRecords}

NoLast == [kind |-> "none"]

NoProbe == [kind |-> "none"]

StoreInit ==
    /\ db = EmptyStore
    /\ disk = EmptyStore
    /\ call = NoCall
    /\ last = NoLast
    /\ files = <<>>
    /\ pc = "idle"
    /\ args = [dry_run |-> FALSE]
    /\ run = [idx |-> 0]
    /\ runLog = <<>>
    /\ probe = NoProbe

PipelineVars == <<files, pc, args, run, runLog, probe>>

\* one step of the call in progress: the new locals, store and commit flag
ApplyStep(r) ==
    /\ call' = r.c
    /\ db' = r.db
    /\ disk' = IF r.commit THEN r.db ELSE disk

CallInsert ==
    /\ call.phase = "idle"
    /\ \E records \in RecordLists, batch_size \in 1..MaxBatch :
        /\ Len(db.shapelets) + Len(records) <= MaxRows
        /\ call' = NewCall(db, records, batch_size)
    /\ last' = NoLast
    /\ UNCHANGED <<db, disk, PipelineVars>>

StepSites ==
    /\ call.phase = "sites"
    /\ ApplyStep(BatchSites(call, db))
    /\ UNCHANGED <<last, PipelineVars>>

StepRows ==
    /\ call.phase = "rows"
    /\ ApplyStep(BatchRows(call, db))
    /\ UNCHANGED <<last, PipelineVars>>

StepExec ==
    /\ call.phase = "exec"
    /\ ApplyStep(BatchExec(call, db))
    /\ UNCHANGED <<last, PipelineVars>>

StepCommit ==
    /\ call.phase = "commit"
    /\ ApplyStep(CommitCall(call, db))
    /\ last' = CommitCall(call, db).last
    /\ UNCHANGED PipelineVars

\* the process stops inside the call: the open transaction is lost
ProcessStops ==
    /\ call.phase \in {"sites", "rows", "exec", "commit"}
    /\ db' = disk
    /\ disk' = disk
    /\ call' = NoCall
    /\ last' = [kind |-> "stopped", records |-> call.records,
                batch_size |-> call.batch_size, batches |-> call.batches,
                before |-> call.before, ret |-> 0]
    /\ UNCHANGED PipelineVars

StoreNext ==
    \/ CallInsert
    \/ StepSites
    \/ StepRows
    \/ StepExec
    \/ StepCommit
    \/ ProcessStops

StoreSpec == StoreInit /\ [][StoreNext]_vars

---------------------------------------------------------------------------
(* The store writer called directly: upsert_site, upsert_pollutant and      *)
(* insert_shapelets in any order, on a store that may hold pollutants rows  *)
(* whose name and unit were filled in by hand.                              *)

\* two records whose state and county differ and whose site keys are equal
RecUnderscoreA ==
    [BaseRec EXCEPT !.state = PyStr(<<"T">>), !.county = PyStr(<<"X", "_", "H">>)]

RecUnderscoreB ==
    [BaseRec EXCEPT !.state = PyStr(<<"T", "_", "X">>), !.county = PyStr(<<"H">>),
                    !.latitude = PyFloat(300000)]

\* a second shapelet, of the site of RecUnderscoreB
RecUnderscoreC == [RecUnderscoreB EXCEPT !.shapelet_id = PyInt(1)]

\* lists of records, some with states and counties that hold underscores
UnderscoreLists ==
    UNION {[1..n -> {BaseRec, RecUnderscoreA, RecUnderscoreC}] : n \in 1..MaxRecords}

SiteRecords == {BaseRec, RecSameSite, RecNoSource, RecUnderscoreA, RecUnderscoreB}

ParameterCodes == {PyNone, PyStr(<<"4", "2">>), PyStr(<<"7">>)}

\* a pollutants row with its name and unit filled in
NamedPollutant ==
    [parameter_code |-> PyStr(<<"4", "2">>), name |-> PyStr(<<"S", "O", "2">>),
     unit |-> PyStr(<<"p", "p", "b">>)]

WriterProbe(site_calls, inserted, op, arg, ret) ==
    [kind |-> "writer", site_calls |-> site_calls, inserted |-> inserted,
     op |-> op, arg |-> arg, ret |-> ret]

WriterInit ==
    /\ db \in {EmptyStore, [EmptyStore EXCEPT !.pollutants = {NamedPollutant}]}
    /\ disk = db
    /\ call = NoCall
    /\ last = NoLast
    /\ files = <<>>
    /\ pc = "idle"
    /\ args = [dry_run |-> FALSE]
    /\ run = [idx |-> 0]
    /\ runLog = <<>>
    /\ probe = WriterProbe(<<>>, FALSE, "none", PyNone, PyNone)

WriterFrame == <<disk, call, last, files, pc, args, run, runLog>>

\* upsert_site(conn, record)
CallUpsertSite ==
    /\ Len(probe.site_calls) < MaxCalls
    /\ ~probe.inserted
    /\ \E rec \in SiteRecords :
        /\ db' = upsert_site(db, rec)
        /\ probe' = WriterProbe(Append(probe.site_calls, rec), FALSE,
                                "upsert_site", PyNone, upsert_site_return(rec))
    /\ UNCHANGED WriterFrame

\* upsert_pollutant(conn, parameter_code)
CallUpsertPollutant ==
    /\ \E code \in ParameterCodes :
        /\ db' = upsert_pollutant(db, code)
        /\ probe' = WriterProbe(probe.site_calls, probe.inserted,
                                "upsert_pollutant", code, PyNone)
    /\ UNCHANGED WriterFrame

\* insert_shapelets(conn, records), from entry to return
CallInsertShapelets ==
    /\ \E records \in RecordLists, batch_size \in {BatchSizeDefault} :
        /\ Len(db.shapelets) + Len(records) <= MaxRows
        /\ \E r \in {insert_shapelets(db, records, batch_size)} :
              /\ db' = r.db
              /\ probe' = WriterProbe(<<>>, TRUE, "insert_shapelets",
                                      PyList(records), PyInt(r.ret))
    /\ UNCHANGED WriterFrame

WriterNext ==
    \/ CallUpsertSite
    \/ CallUpsertPollutant
    \/ CallInsertShapelets

WriterSpec == WriterInit /\ [][WriterNext]_vars

\* insert_shapelets alone, on records whose site keys may coincide
CallInsertKeyed ==
    /\ probe.kind = "writer"
    /\ \E records \in UnderscoreLists, batch_size \in 1..MaxBatch :
        /\ Len(db.shapelets) + Len(records) <= MaxRows
        /\ \E r \in {insert_shapelets(db, records, batch_size)} :
              /\ db' = r.db
              /\ probe' = WriterProbe(<<>>, TRUE, "insert_shapelets",
                                      PyList(records), PyInt(r.ret))
    /\ UNCHANGED WriterFrame

SiteKeySpec == WriterInit /\ [][CallInsertKeyed]_vars

---------------------------------------------------------------------------
(* validate_record called directly, on a valid record changed in at most    *)
(* MaxEdits places: a field removed, set to None, given a value of another  *)
(* type, or moved to and across a limit of its domain.                      *)

FieldNames == {Schema[i].field : i \in 1..Len(Schema)}

StrFields == {"dataset_key", "state", "county", "location", "pattern_type",
              "data_type", "source_file"}

\* values a caller may put in a field besides the one of BaseRec
Variants(field) ==
    {PyNone} \cup
    CASE field \in StrFields -> {PyInt(3)}
      [] field = "year" ->
            {PyInt(YearMin - 1), PyInt(YearMin), PyInt(YearMax),
             PyInt(YearMax + 1), PyBool(1), NpInt(2010), PyStr(<<"x">>)}
      [] field = "length_days" ->
            {PyInt(LengthDaysMin - 1), PyInt(LengthDaysMin), PyBool(1),
             PyStr(<<"x">>)}
      [] field \in {"shapelet_id", "site_num"} ->
            {PyBool(0), NpInt(4), PyStr(<<"x">>)}
      [] field = "latitude" ->
            {PyFloat(LatitudeMax * 10000), PyFloat(-LatitudeMax * 10000),
             PyFloat(LatitudeMax * 10000 + 1), PyFloat(-LatitudeMax * 10000 - 1),
             NpFloat(100000), PyInt(10)}
      [] field = "longitude" ->
            {PyFloat(LongitudeMax * 10000), PyFloat(-LongitudeMax * 10000),
             PyFloat(LongitudeMax * 10000 + 1),
             PyFloat(-LongitudeMax * 10000 - 1), PyInt(10)}
      [] field = "quality" -> {PyInt(1)}
      [] field = "start_date" ->
            {PyDate(2010, 1, 7), PyDate(2010, 1, 8), PyDateTime(2010, 1, 1, 0),
             PyStr(<<"x">>)}
      [] field = "end_date" ->
            {PyDate(2010, 1, 1), PyDate(2009, 12, 31), PyDateTime(2010, 1, 7, 0),
             PyDateTime(2009, 12, 31, 23), PyStr(<<"x">>)}
      [] field = "shapelet_values" -> {PyList(<<>>), NdArray(<<15000>>)}

Edits ==
    {[field |-> f, drop |-> TRUE, value |-> PyNone] : f \in FieldNames}
    \cup UNION {{[field |-> f, drop |-> FALSE, value |-> v] : v \in Variants(f)} :
                 f \in FieldNames}

\* del record[field], or record[field] = value
EditRecord(record, e) ==
    IF e.field \notin DOMAIN record THEN record
    ELSE IF e.drop THEN [f \in (DOMAIN record) \ {e.field} |-> record[f]]
    ELSE [f \in DOMAIN record |-> IF f = e.field THEN e.value ELSE record[f]]

EditedRecords ==
    {Fold(EditRecord, BaseRec, es) :
        es \in UNION {[1..n -> Edits] : n \in 0..MaxEdits}}

ValidatorInit ==
    /\ db = EmptyStore
    /\ disk = EmptyStore
    /\ call = NoCall
    /\ last = NoLast
    /\ files = <<>>
    /\ pc = "idle"
    /\ args = [dry_run |-> FALSE]
    /\ run = [idx |-> 0]
    /\ runLog = <<>>
    /\ probe \in {[kind |-> "validator", record |-> r, done |-> FALSE,
                    result |-> PyNone] : r \in EditedRecords}

\* validate_record(record)
Validate ==
    /\ probe.kind = "validator"
    /\ ~probe.done
    /\ probe' = [probe EXCEPT !.done = TRUE,
                              !.result = validate_record(probe.record)]
    /\ UNCHANGED <<db, disk, call, last, files, pc, args, run, runLog>>

ValidatorSpec == ValidatorInit /\ [][Validate]_vars

---------------------------------------------------------------------------
(* The orchestrator (main.py) *)

\* files[:limit]
Slice(found, n) ==
    IF n >= 0 THEN SubSeq(found, 1, Min(n, Len(found)))
    ELSE SubSeq(found, 1, IF Len(found) + n > 0 THEN Len(found) + n ELSE 0)

\* if args.limit: files = files[: args.limit]
SelectFiles(found, limit) ==
    IF limit # PyNone /\ limit.v # 0 THEN Slice(found, limit.v) ELSE found

\* a schema script that creates the four tables anew
init_db_fresh(d) == EmptyStore

\* executescript(_SCHEMA_SQL): CREATE TABLE IF NOT EXISTS, for each table
init_db(d) ==
    [table \in DOMAIN EmptyStore |->
        IF table \in DOMAIN d THEN d[table] ELSE EmptyStore[table]]

\* INSERT INTO ingestion_runs (started_at); the other columns take defaults
start_ingestion_run(d) ==
    LET id == Len(d.ingestion_runs) + 1
    IN  [db |-> [d EXCEPT !.ingestion_runs =
                    Append(@, [id |-> id, started_at |-> PyStr(<<"t">>),
                               finished_at |-> PyNone, status |-> "running",
                               total_files |-> 0, total_rows |-> 0,
                               error_count |-> 0])],
         run_id |-> id]

\* the UPDATE with the file count bound to total_rows
finish_ingestion_run_swapped(d, run_id, status, total_files, total_rows, error_count) ==
    [d EXCEPT !.ingestion_runs =
        [i \in 1..Len(@) |->
            IF @[i].id = run_id
            THEN [@[i] EXCEPT !.finished_at = PyStr(<<"t">>),
                              !.status = status,
                              !.total_files = total_rows,
                              !.total_rows = total_files,
                              !.error_count = error_count]
            ELSE @[i]]]

\* UPDATE ingestion_runs SET ... WHERE id = run_id
finish_ingestion_run(d, run_id, status, total_files, total_rows, error_count) ==
    [d EXCEPT !.ingestion_runs =
        [i \in 1..Len(@) |->
            IF @[i].id = run_id
            THEN [@[i] EXCEPT !.finished_at = PyStr(<<"t">>),
                              !.status = status,
                              !.total_files = total_files,
                              !.total_rows = total_rows,
                              !.error_count = error_count]
            ELSE @[i]]]

\* a loop that keeps every record
ValidRecordsAll(records) == records

\* the records for which validate_record returns ok
ValidRecords(records) == SelectSeq(records, LAMBDA rec : validate_record(rec).ok)

ErrorRecords(records) == SelectSeq(records, LAMBDA rec : ~validate_record(rec).ok)

\* an except branch that forgets the counter
SkipFileUncounted(r) == [r EXCEPT !.idx = @ + 1, !.outcome = "skipped"]

\* except branch of steps 1 and 2: count one error, continue
SkipFile(r) ==
    [r EXCEPT !.total_errors = @ + 1, !.idx = @ + 1, !.outcome = "skipped"]

\* an exception no handler catches leaves run()
Abort(r) == [r EXCEPT !.outcome = "raised"]

\* step 3 without its except branch
key_meta_strict(dataset_key) ==
    IF dataset_key.t # "str" THEN Raise("TypeError")
    ELSE parse_dataset_key(dataset_key.v)

\* step 3: parse_dataset_key(dataset_key), its ValueError caught and replaced
\* by the raw key; re.match on a key that is not a str raises TypeError
key_meta(dataset_key) ==
    IF dataset_key.t # "str" THEN Raise("TypeError")
    ELSE IF IsRaise(parse_dataset_key(dataset_key.v)) THEN [raw_key |-> dataset_key]
    ELSE parse_dataset_key(dataset_key.v)

\* steps 3 to 7 for a loaded object
IngestData(r, d, f, data) ==
    IF \/ data.t # "dict"
       \/ data.v = <<>>
       \/ IsRaise(key_meta(data.v[1][1]))
    THEN [run |-> Abort(r), db |-> d]
    ELSE Bind(iter_records(data, PyStr(f.name)), LAMBDA it :
         Bind(ValidRecords(it.records), LAMBDA valid_records :
         Bind(ErrorRecords(it.records), LAMBDA error_records :
            IF it.raised THEN [run |-> Abort(r), db |-> d]
            ELSE [run |-> [r EXCEPT !.total_valid = @ + Len(valid_records),
                                    !.total_errors = @ + Len(error_records),
                                    !.idx = @ + 1,
                                    !.outcome = "ingested"],
                  db |-> IF r.conn /\ Len(valid_records) > 0
                         THEN insert_shapelets(d, valid_records,
                                               BatchSizeDefault).db
                         ELSE d])))

\* one iteration of the loop over files
FileStep(r, d, f) ==
    IF IsRaise(parse_filename(f.name)) THEN [run |-> SkipFile(r), db |-> d]
    ELSE Bind(load_from_path(f), LAMBDA data :
            IF IsRaise(data) THEN [run |-> SkipFile(r), db |-> d]
            ELSE IngestData(r, d, f, data))

---------------------------------------------------------------------------
(* Input data of the model: raw shapelet dictionaries, containers, files *)

RawBase ==
    [shapelet_id |-> NpInt(0),
     state |-> PyStr(<<"T">>), county |-> PyStr(<<"H">>), site_num |-> NpInt(4),
     latitude |-> NpFloat(100000), longitude |-> NpFloat(-950000),
     year |-> PyInt(2010),
     start_date |-> PyDateTime(2010, 1, 1, 0), end_date |-> PyDate(2010, 1, 7),
     length_days |-> PyInt(7),
     pattern_type |-> PyStr(<<"d", "_", "4", "2">>),
     data_type |-> PyStr(<<"z">>),
     quality |-> NpFloat(5000),
     shapelet |-> NdArray(<<15000, 20000>>)]

Raw(id) == [RawBase EXCEPT !.shapelet_id = NpInt(id)]

RawOtherLatitude(id) ==
    [RawBase EXCEPT !.shapelet_id = NpInt(id), !.latitude = NpFloat(200000)]

\* normalizes, fails validation: year out of range
RawBadYear(id) == [RawBase EXCEPT !.shapelet_id = NpInt(id), !.year = PyInt(1800)]

\* normalizes, fails validation: end before start, no values
RawBadDates(id) ==
    [RawBase EXCEPT !.shapelet_id = NpInt(id), !.end_date = PyDate(2009, 12, 31),
                    !.shapelet = NdArray(<<>>), !.length_days = PyInt(0)]

\* an expected key is absent
RawMissingKey == [k \in (DOMAIN RawBase) \ {"year"} |-> RawBase[k]]

\* a value that _to_date cannot coerce
RawBadDate == [RawBase EXCEPT !.start_date = PyStr(<<"2", "0", "1", "0">>)]

Dict(items) == [t |-> "dict", v |-> items]

KeyA == PyStr(<<"k">>)

Container(shapelets) == Dict(<< <<KeyA, PyList(shapelets)>> >>)

\* a dataset key of the grammar: T_H_4_d_42_7d_2010_z
KeyGrammar ==
    PyStr(<<"T", "_", "H", "_", "4", "_", "d", "_", "4", "2", "_", "7", "d", "_",
            "2", "0", "1", "0", "_", "z">>)

ContainerKeyed(key, shapelets) == Dict(<< <<key, PyList(shapelets)>> >>)

NameHead == <<"T", "_", "H", "_", "4">>

\* {State}_{County}_{SiteNum}_shapelets.pkl_{Year}_{Chunk}.pkl
GoodName(chunk) ==
    NameHead \o ShapeletsPkl \o <<"2", "0", "1", "0", "_", "0", "0", chunk>> \o DotPkl

\* the same grammar, the file being a zip archive
ZipName(chunk) ==
    NameHead \o ShapeletsPkl \o <<"2", "0", "1", "0", "_", "0", "0", chunk>> \o DotZip

\* a zip archive: its members in namelist() order, each with what it unpickles to
Archive(members) == [t |-> "zip", v |-> members]

DataFile(path, name, content) == [path |-> path, name |-> name, content |-> content]

FileUniverse ==
    { DataFile(1, GoodName("1"),
               Container(<<Raw(0), RawOtherLatitude(1), Raw(2)>>)),
      DataFile(2, <<"n", "o", "t", "e", "s", ".", "p", "k", "l">>, Container(<<Raw(9)>>)),
      DataFile(3, GoodName("2"), Raise("UnpicklingError")),
      DataFile(4, GoodName("3"),
               ContainerKeyed(KeyGrammar, <<Raw(3), RawBadYear(4), RawBadDates(5)>>)),
      DataFile(5, GoodName("4"), Container(<<Raw(6), RawMissingKey, Raw(7)>>)),
      DataFile(6, GoodName("5"), Dict(<<>>)),
      DataFile(7, GoodName("1"), Container(<<Raw(0), Raw(1)>>)),
      DataFile(8, GoodName("6"), PyList(<<Raw(8)>>)),
      DataFile(9, GoodName("7"), Dict(<< <<KeyA, PyInt(3)>> >>)),
      DataFile(10, GoodName("8"), Container(<<Raw(8), RawBadDate>>)),
      DataFile(11, <<"r", "e", "a", "d", "m", "e", ".", "t", "x", "t">>, PyNone),
      DataFile(12, ZipName("9"),
               Archive(<< <<<<"a", ".", "t", "x", "t">>, PyNone>>,
                          <<<<"a", ".", "P", "K", "L">>, Container(<<Raw(5), Raw(6)>>)>>,
                          <<<<"b", ".", "p", "k", "l">>, Dict(<<>>)>> >>)) }

Directories == {fs \in SUBSET FileUniverse : Cardinality(fs) <= MaxFiles}

Limits == {PyNone, PyInt(0), PyInt(1)}

NoRun == [idx |-> 0]

NoArgs == [dry_run |-> FALSE]

Init ==
    /\ db = EmptyStore
    /\ disk = EmptyStore
    /\ call = NoCall
    /\ last = NoLast
    /\ files \in Directories
    /\ pc = "idle"
    /\ args = NoArgs
    /\ run = NoRun
    /\ runLog = <<>>
    /\ probe = NoProbe

\* what an ended invocation leaves behind
LogEntry(outcome, a, r, d) ==
    [outcome |-> outcome, dry_run |-> a.dry_run, limit |-> a.limit,
     selected |-> r.selected, at |-> r.idx, run_id |-> r.run_id,
     start_rows |-> r.start_rows, rows |-> Len(d.shapelets),
     total_valid |-> r.total_valid, total_errors |-> r.total_errors,
     finish_calls |-> r.finish_calls]

\* a store destination resolved whatever the flags
db_path_always(a) == PyStr(<<"a", "i", "r", ".", "d", "b">>)

\* db_path stays None on a dry run
db_path(a) ==
    IF ~a.dry_run THEN PyStr(<<"a", "i", "r", ".", "d", "b">>) ELSE PyNone

\* run() up to the loop: resolve arguments, discover, open the store
Startup(a, directory, d) ==
    LET found == discover_files(directory)
        selected == SelectFiles(found, a.limit)
        started == start_ingestion_run(init_db(d))
        r == [selected |-> selected, idx |-> 1, total_valid |-> 0,
              total_errors |-> 0, conn |-> db_path(a) # PyNone,
              run_id |-> IF db_path(a) = PyNone THEN 0 ELSE started.run_id,
              start_rows |-> Len(d.shapelets), finish_calls |-> 0,
              outcome |-> "started"]
    IN  IF ~a.is_dir THEN [exit |-> "exit1", run |-> r, db |-> d]
        ELSE IF selected = <<>> THEN [exit |-> "exit0", run |-> r, db |-> d]
        ELSE [exit |-> "none", run |-> r,
              db |-> IF db_path(a) = PyNone THEN d ELSE started.db]

\* the Finalise block
Finalise(r, d) ==
    IF r.conn /\ r.run_id # 0
    THEN [run |-> [r EXCEPT !.finish_calls = @ + 1, !.outcome = "finalised"],
          db |-> finish_ingestion_run(d, r.run_id, "completed",
                                      Len(r.selected), r.total_valid,
                                      r.total_errors)]
    ELSE [run |-> [r EXCEPT !.outcome = "finalised"], db |-> d]

StartRun ==
    /\ pc = "idle"
    /\ Len(runLog) < MaxRuns
    /\ \E a \in [is_dir : BOOLEAN, dry_run : BOOLEAN, limit : Limits] :
        /\ (~a.is_dir => ~a.dry_run /\ a.limit = PyNone)
        /\ \E s \in {Startup(a, files, db)} :
               /\ args' = a
               /\ run' = s.run
               /\ db' = s.db
               /\ disk' = s.db
               /\ pc' = IF s.exit = "none" THEN "loop" ELSE "idle"
               /\ runLog' = IF s.exit = "none" THEN runLog
                            ELSE Append(runLog, LogEntry(s.exit, a, s.run, s.db))
    /\ UNCHANGED <<call, last, files, probe>>

ProcessFile ==
    /\ pc = "loop"
    /\ run.idx <= Len(run.selected)
    /\ \E s \in {FileStep(run, db, run.selected[run.idx])} :
           /\ run' = s.run
           /\ db' = s.db
           /\ disk' = s.db
           /\ pc' = IF s.run.outcome = "raised" THEN "idle" ELSE "loop"
           /\ runLog' = IF s.run.outcome = "raised"
                        THEN Append(runLog, LogEntry("aborted", args, s.run, s.db))
                        ELSE runLog
    /\ UNCHANGED <<call, last, files, args, probe>>

Finalize ==
    /\ pc = "loop"
    /\ run.idx > Len(run.selected)
    /\ \E s \in {Finalise(run, db)} :
           /\ run' = s.run
           /\ db' = s.db
           /\ disk' = s.db
           /\ runLog' = Append(runLog, LogEntry("done", args, s.run, s.db))
    /\ pc' = "idle"
    /\ UNCHANGED <<call, last, files, args, probe>>

Next ==
    \/ StartRun
    \/ ProcessFile
    \/ Finalize

Spec == Init /\ [][Next]_vars

---------------------------------------------------------------------------
(* _flatten_shapelet followed by validate_record, on a valid shapelet       *)
(* dictionary whose values arrive in at most MaxEdits other valid forms.    *)

\* other forms in which a valid value of a key may arrive
RawVariants(key) ==
    CASE key = "shapelet_id" -> {PyInt(0)}
      [] key \in {"state", "county"} -> {PyInt(48)}
      [] key = "site_num" -> {PyInt(4)}
      [] key = "latitude" ->
            {NpFloat(LatitudeMax * 10000), NpFloat(-LatitudeMax * 10000),
             PyFloat(100000), PyInt(10)}
      [] key = "longitude" ->
            {NpFloat(LongitudeMax * 10000), NpFloat(-LongitudeMax * 10000),
             PyInt(10)}
      [] key = "year" -> {NpInt(YearMin), NpInt(YearMax)}
      [] key = "start_date" ->
            {PyDate(2010, 1, 1), PyDate(2010, 1, 7), PyDateTime(2010, 1, 7, 5)}
      [] key = "end_date" ->
            {PyDate(2010, 1, 1), PyDateTime(2010, 1, 1, 0),
             PyDateTime(2010, 1, 7, 23)}
      [] key = "length_days" -> {NpInt(LengthDaysMin)}
      [] key = "quality" -> {PyFloat(5000), PyInt(1)}
      [] key = "shapelet" -> {PyList(<<15000>>), NdArray(<<15000>>)}
      [] key = "location" -> {PyStr(<<"a">>)}
      [] OTHER -> {}

RawEdits ==
    UNION {{[key |-> k, value |-> v] : v \in RawVariants(k)} :
              k \in (DOMAIN RawBase) \cup {"location"}}

\* raw[key] = value
SetKey(raw, e) ==
    [k \in (DOMAIN raw) \cup {e.key} |-> IF k = e.key THEN e.value ELSE raw[k]]

\* the end is not before the start: as datetimes when both are, else by day
EndNotBeforeStart(raw) ==
    IF raw.start_date.t = raw.end_date.t
    THEN ~DateLess(raw.end_date, raw.start_date)
    ELSE ~DateLess(to_date(raw.end_date), to_date(raw.start_date))

ValidRaws ==
    {raw \in {Fold(SetKey, RawBase, es) :
                 es \in UNION {[1..n -> RawEdits] : n \in 0..MaxEdits}} :
        EndNotBeforeStart(raw)}

NormalizeInit ==
    /\ db = EmptyStore
    /\ disk = EmptyStore
    /\ call = NoCall
    /\ last = NoLast
    /\ files = <<>>
    /\ pc = "idle"
    /\ args = [dry_run |-> FALSE]
    /\ run = [idx |-> 0]
    /\ runLog = <<>>
    /\ probe \in {[kind |-> "normalize", raw |-> raw, source_file |-> src,
                    stage |-> "raw", record |-> PyNone, result |-> PyNone] :
                      raw \in ValidRaws, src \in {PyNone, PyStr(<<"f">>)}}

\* _flatten_shapelet(dataset_key, raw, source_file)
Normalize ==
    /\ probe.kind = "normalize"
    /\ probe.stage = "raw"
    /\ probe' = [probe EXCEPT
                    !.stage = "flat",
                    !.record = flatten_shapelet(KeyA, probe.raw, probe.source_file)]
    /\ UNCHANGED <<db, disk, call, last, files, pc, args, run, runLog>>

\* validate_record(record) on the record the normalizer returned
ValidateNormalized ==
    /\ probe.kind = "normalize"
    /\ probe.stage = "flat"
    /\ ~IsRaise(probe.record)
    /\ probe' = [probe EXCEPT !.stage = "checked",
                              !.result = validate_record(probe.record)]
    /\ UNCHANGED <<db, disk, call, last, files, pc, args, run, runLog>>

NormalizeNext ==
    \/ Normalize
    \/ ValidateNormalized

NormalizeSpec == NormalizeInit /\ [][NormalizeNext]_vars

---------------------------------------------------------------------------
(* The parsers called on their own: parse_filename, parse_dataset_key and   *)
(* _extract_param_code, on strings composed of small sets of tokens.        *)

FilenameParts ==
    [state : {<<"T">>, <<"T", "_", "X">>, <<"a", "/", "b">>, <<>>},
     county : {<<"H">>, <<"a", " ", "b">>, <<"H", "2">>, <<>>},
     site_num : {<<"4">>, <<"0", "4", "8">>, <<"x">>},
     mid : {ShapeletsPkl,
            <<"_", "s", "h", "a", "p", "e", "l", "e", "t", "s", "x", "p", "k", "l", "_">>},
     year : {<<"2", "0", "1", "0">>, <<"2", "0", "1">>},
     chunk : {<<"0", "0", "1">>, <<"0", "0", "1", "1">>},
     ext : {DotPkl, DotZip, <<".", "P", "K", "L">>},
     tail : {<<>>, <<"\n">>, <<"/">>}]

\* {State}_{County}_{SiteNum}_shapelets.pkl_{Year}_{Chunk}.pkl
FilenameOf(p) ==
    p.state \o <<"_">> \o p.county \o <<"_">> \o p.site_num \o p.mid
    \o p.year \o <<"_">> \o p.chunk \o p.ext \o p.tail

DatasetKeyParts ==
    [state : {<<"T">>, <<"T", "_", "X">>},
     county : {<<"H">>, <<"a", " ", "b">>},
     site_num : {<<"4">>},
     frequency : {<<"d">>, <<"D">>},
     parameter_code : {<<"4", "2">>, <<"4", "x">>},
     duration : {<<"7", "d">>, <<"7">>},
     year : {<<"2", "0", "1", "0">>, <<"2", "0", "1">>},
     agg_method : {<<"z">>, <<"d", "_", "z">>, <<"a", "_", "1", "9", "9", "9", "_", "b">>,
                   <<"1", "9", "9", "9", "_", "b">>, <<>>}]

\* {State}_{County}_{SiteNum}_{Frequency}_{ParamCode}_{Duration}_{Year}_{AggMethod}
DatasetKeyOf(p) ==
    p.state \o <<"_">> \o p.county \o <<"_">> \o p.site_num \o <<"_">>
    \o p.frequency \o <<"_">> \o p.parameter_code \o <<"_">> \o p.duration
    \o <<"_">> \o p.year \o <<"_">> \o p.agg_method

PatternTokens == {<<>>, <<"d">>, <<"4", "2">>, <<"4", "x">>, <<"7">>}

\* "_".join(tokens)
RECURSIVE Join(_)
Join(tokens) ==
    IF Len(tokens) = 0 THEN <<>>
    ELSE IF Len(tokens) = 1 THEN tokens[1]
    ELSE tokens[1] \o <<"_">> \o Join(Tail(tokens))

PatternTypes ==
    {Join(ts) : ts \in UNION {[1..n -> PatternTokens] : n \in 1..MaxTokens}}

ParserProbe(fn, parts, input) ==
    [kind |-> "parser", fn |-> fn, parts |-> parts, input |-> input,
     done |-> FALSE, result |-> PyNone, rows |-> <<>>]

ParserInit ==
    /\ db = EmptyStore
    /\ disk = EmptyStore
    /\ call = NoCall
    /\ last = NoLast
    /\ files = <<>>
    /\ pc = "idle"
    /\ args = [dry_run |-> FALSE]
    /\ run = [idx |-> 0]
    /\ runLog = <<>>
    /\ probe \in {ParserProbe("parse_filename", p, FilenameOf(p)) : p \in FilenameParts}
               \cup {ParserProbe("parse_dataset_key", p, DatasetKeyOf(p)) :
                        p \in DatasetKeyParts}
               \cup {ParserProbe("extract_param_code", <<>>, s) : s \in PatternTypes}

ParserFrame == <<db, disk, call, last, files, pc, args, run, runLog>>

ParseFilename ==
    /\ probe.kind = "parser" /\ probe.fn = "parse_filename" /\ ~probe.done
    /\ probe' = [probe EXCEPT !.done = TRUE,
                              !.result = parse_filename(probe.input)]
    /\ UNCHANGED ParserFrame

ParseDatasetKey ==
    /\ probe.kind = "parser" /\ probe.fn = "parse_dataset_key" /\ ~probe.done
    /\ probe' = [probe EXCEPT !.done = TRUE,
                              !.result = parse_dataset_key(probe.input)]
    /\ UNCHANGED ParserFrame

\* _extract_param_code(pattern_type), and the row insert_shapelets stores for
\* a record of that pattern_type
ExtractParamCode ==
    /\ probe.kind = "parser" /\ probe.fn = "extract_param_code" /\ ~probe.done
    /\ probe' = [probe EXCEPT
                    !.done = TRUE,
                    !.result = extract_param_code(PyStr(probe.input)),
                    !.rows = insert_shapelets(
                                EmptyStore,
                                <<[BaseRec EXCEPT !.pattern_type = PyStr(probe.input)]>>,
                                1).db.shapelets]
    /\ UNCHANGED ParserFrame

ParserNext ==
    \/ ParseFilename
    \/ ParseDatasetKey
    \/ ExtractParamCode

ParserSpec == ParserInit /\ [][ParserNext]_vars

---------------------------------------------------------------------------
(* The filtered export query (helpers/exporter.py), run on stores filled by *)
(* insert_shapelets.                                                        *)

\* truth value of an optional list or string argument
Truthy(val) == val # PyNone /\ val.v # <<>>

\* one "AND s.<column> IN (?, ...)" clause, when the list is not empty
InClause(column, val) ==
    IF Truthy(val) THEN <<[column |-> column, op |-> "IN", params |-> val.v]>>
    ELSE <<>>

\* one "AND s.<column> <op> ?" clause, when the bound is not empty
BoundClause(column, op, val) ==
    IF Truthy(val) THEN <<[column |-> column, op |-> op, params |-> <<val>>]>>
    ELSE <<>>

\* the query without its pattern_type clause
build_export_query_untyped(f) ==
    InClause("year", f.years) \o InClause("site_key", f.sites)
    \o InClause("parameter_code", f.pollutants)
    \o BoundClause("start_date", ">=", f.date_from)
    \o BoundClause("end_date", "<=", f.date_to)

\* the WHERE clauses appended to "WHERE 1=1", each with its parameters
build_export_query(f) ==
    InClause("year", f.years) \o InClause("site_key", f.sites)
    \o InClause("parameter_code", f.pollutants)
    \o InClause("pattern_type", f.pattern_types)
    \o BoundClause("start_date", ">=", f.date_from)
    \o BoundClause("end_date", "<=", f.date_to)

AsciiChars ==
    <<" ", "-", ".", "/">> \o DigitChars \o UpperLetters \o <<"_">> \o LowerLetters

Ord(c) == CHOOSE k \in 1..Len(AsciiChars) : AsciiChars[k] = c

\* BINARY collation of two texts
SqlTextLess(a, b) ==
    \/ \E i \in 1..Min(Len(a), Len(b)) :
          /\ \A j \in 1..(i - 1) : a[j] = b[j]
          /\ Ord(a[i]) < Ord(b[i])
    \/ Len(a) < Len(b) /\ SubSeq(b, 1, Len(a)) = a

\* x < y in SQLite's sort order: NULL first, then numbers, then texts
SqlLess(x, y) ==
    IF x = PyNone THEN y # PyNone
    ELSE IF y = PyNone THEN FALSE
    ELSE IF x.t = "str" /\ y.t = "str" THEN SqlTextLess(x.v, y.v)
    ELSE IF x.t = "str" THEN FALSE
    ELSE IF y.t = "str" THEN TRUE
    ELSE x.v < y.v

\* the truth of one WHERE clause on a row; a NULL column satisfies none
ClauseHolds(row, c) ==
    /\ row[c.column] # PyNone
    /\ CASE c.op = "IN" -> \E i \in 1..Len(c.params) :
                               c.params[i] # PyNone /\ c.params[i] = row[c.column]
         [] c.op = ">=" -> ~SqlLess(row[c.column], c.params[1])
         [] c.op = "<=" -> ~SqlLess(c.params[1], row[c.column])

\* FROM shapelets s LEFT JOIN sites si ON s.site_key = si.site_key
JoinedRows(d) ==
    [i \in 1..Len(d.shapelets) |->
        LET hit == {si \in d.sites : si.site_key = d.shapelets[i].site_key}
            cols == {"state", "county", "site_num", "latitude", "longitude"}
        IN  IF hit = {} THEN [c \in cols |-> PyNone] @@ d.shapelets[i]
            ELSE [c \in cols |-> (CHOOSE si \in hit : TRUE)[c]] @@ d.shapelets[i]]

\* ORDER BY s.year, si.state, si.county, s.start_date
OrderKey == <<"year", "state", "county", "start_date">>

OrderedBefore(r1, r2) ==
    \E k \in 1..Len(OrderKey) :
        /\ \A j \in 1..(k - 1) : r1[OrderKey[j]] = r2[OrderKey[j]]
        /\ SqlLess(r1[OrderKey[k]], r2[OrderKey[k]])

\* the results the query may return: the selected rows in an order that
\* ORDER BY allows (rows with equal keys come in any order)
ExecuteQuery(d, where) ==
    LET sel == SelectSeq(JoinedRows(d),
                         LAMBDA row : \A k \in 1..Len(where) : ClauseHolds(row, where[k]))
        n == Len(sel)
    IN  {[i \in 1..n |-> sel[perm[i]]] :
            perm \in {q \in [1..n -> 1..n] :
                        /\ \A i, j \in 1..n : i # j => q[i] # q[j]
                        /\ \A i, j \in 1..n :
                              i < j => ~OrderedBefore(sel[q[j]], sel[q[i]])}}

ExportA == BaseRec

\* another year, another site, no pollutant code
ExportB ==
    [BaseRec EXCEPT !.shapelet_id = PyInt(1), !.year = PyInt(2011),
                    !.site_num = PyInt(5), !.pattern_type = PyStr(<<"d">>),
                    !.start_date = PyDate(2011, 1, 3),
                    !.end_date = PyDate(2011, 1, 9)]

\* the same year as ExportA, another county, later dates, another pollutant
ExportC ==
    [BaseRec EXCEPT !.shapelet_id = PyInt(2), !.county = PyStr(<<"A">>),
                    !.pattern_type = PyStr(<<"d", "_", "7">>),
                    !.start_date = PyDate(2010, 1, 5),
                    !.end_date = PyDate(2010, 1, 11)]

ExportStores ==
    {insert_shapelets(EmptyStore, records, BatchSizeDefault).db :
        records \in UNION {[1..n -> {ExportA, ExportB, ExportC}] : n \in 0..MaxRecords}}

ExportFilters ==
    [years : {PyNone, PyList(<<>>), PyList(<<PyInt(2010)>>),
              PyList(<<PyInt(2011), PyInt(2010)>>)},
     sites : {PyNone, PyList(<<>>), PyList(<<PyStr(SiteKey(ExportA))>>)},
     pollutants : {PyNone, PyList(<<>>), PyList(<<PyStr(<<"4", "2">>)>>)},
     pattern_types : {PyNone, PyList(<<PyStr(<<"d">>), PyStr(<<"d", "_", "7">>)>>)},
     date_from : {PyNone, PyStr(<<>>), IsoFormat(PyDate(2010, 1, 2))},
     date_to : {PyNone, IsoFormat(PyDate(2010, 1, 11))}]

ExportInit ==
    /\ db \in ExportStores
    /\ disk = db
    /\ call = NoCall
    /\ last = NoLast
    /\ files = <<>>
    /\ pc = "idle"
    /\ args = [dry_run |-> FALSE]
    /\ run = [idx |-> 0]
    /\ runLog = <<>>
    /\ probe = NoProbe

\* build_export_query(**filters) and conn.execute(sql, params).fetchall()
Export ==
    /\ probe = NoProbe
    /\ \E f \in ExportFilters :
          \E where \in {build_export_query(f)} :
             \E result \in ExecuteQuery(db, where) :
                probe' = [kind |-> "export", filters |-> f, where |-> where,
                          before |-> db, result |-> result]
    /\ UNCHANGED <<db, disk, call, last, files, pc, args, run, runLog>>

ExportSpec == ExportInit /\ [][Export]_vars

---------------------------------------------------------------------------
(* Properties *)

RowKey(row) == <<row.dataset_key, row.shapelet_id, row.source_file>>

UniqueRows(table) ==
    \A i, j \in 1..Len(table) : i # j => RowKey(table[i]) # RowKey(table[j])

Columns(row) == [c \in (DOMAIN row) \ {"id"} |-> row[c]]

\* the row of rec is in the table
Stored(table, rec) ==
    \E i \in 1..Len(table) : Columns(table[i]) = DbRow(rec)

Ended(e) == e.outcome \in {"done", "aborted"}

AuditRow(run_id) ==
    CHOOSE row \in {db.ingestion_runs[i] : i \in 1..Len(db.ingestion_runs)} :
        row.id = run_id

\* the file is skipped by step 1 or step 2 of the loop
FailsEarly(f) == IsRaise(parse_filename(f.name)) \/ IsRaise(load_from_path(f))

\* the file loads to a mapping of string keys to sequences
WellFormed(f) ==
    /\ ~IsRaise(load_from_path(f))
    /\ load_from_path(f).t = "dict"
    /\ load_from_path(f).v # <<>>
    /\ \A k \in 1..Len(load_from_path(f).v) :
          /\ load_from_path(f).v[k][1].t = "str"
          /\ load_from_path(f).v[k][2].t = "list"
    /\ ~IsRaise(parse_filename(f.name))

\* the shapelets of a well-formed file, flattened one by one
RawShapelets(f) ==
    UNION {{<<load_from_path(f).v[k][1], load_from_path(f).v[k][2].v[n]>> :
                n \in 1..Len(load_from_path(f).v[k][2].v)} :
              k \in 1..Len(load_from_path(f).v)}

Flattened(f) ==
    {flatten_shapelet(x[1], x[2], PyStr(f.name)) : x \in RawShapelets(f)}

HasBadShapelet(f) == WellFormed(f) /\ \E r \in Flattened(f) : IsRaise(r)

GoodRecords(f) ==
    {r \in Flattened(f) : ~IsRaise(r) /\ validate_record(r).ok}

\* (C1) Ingesting the same files twice into the same store leaves as many
\* shapelets rows as ingesting them once, and no two rows share
\* (dataset_key, shapelet_id, source_file).
C1_IngestTwiceSameRows ==
    /\ UniqueRows(db.shapelets)
    /\ \A i \in 1..(Len(runLog) - 1) :
          ( /\ Ended(runLog[i]) /\ Ended(runLog[i + 1])
            /\ ~runLog[i].dry_run /\ ~runLog[i + 1].dry_run
            /\ runLog[i].selected = runLog[i + 1].selected )
          => runLog[i + 1].rows = runLog[i].rows

C1_Witness ==
    /\ Len(runLog) = 2
    /\ runLog[1].outcome = "done" /\ runLog[2].outcome = "done"
    /\ ~runLog[1].dry_run /\ ~runLog[2].dry_run
    /\ runLog[1].selected = runLog[2].selected
    /\ runLog[1].rows >= 3

\* (C2) After any sequence of insert_shapelets calls, on records whose
\* source_file is a string or null, no two shapelets rows have the same
\* (dataset_key, shapelet_id, source_file), and a call whose records are all
\* stored already adds no row.
C2_UniqueTuples ==
    /\ UniqueRows(db.shapelets)
    /\ ( /\ last.kind = "returned"
         /\ \A k \in 1..Len(last.records) :
               \E i \in 1..Len(last.before.shapelets) :
                  RowKey(last.before.shapelets[i]) = RowKey(DbRow(last.records[k])) )
       => db.shapelets = last.before.shapelets

IsoChars == <<"-">> \o DigitChars

Rank(c) == CHOOSE k \in 1..Len(IsoChars) : IsoChars[k] = c

\* text comparison of two ISO dates
TextLess(a, b) ==
    \E i \in 1..Min(Len(a), Len(b)) :
        /\ \A j \in 1..(i - 1) : a[j] = b[j]
        /\ Rank(a[i]) < Rank(b[i])

\* the row is the row of a record of the input that passed validate_record
RowOfValidRecord(row) ==
    /\ row.year.v >= YearMin
    /\ row.year.v <= YearMax
    /\ row.length_days.v >= LengthDaysMin
    /\ ~TextLess(row.end_date.v, row.start_date.v)
    /\ row.shapelet_values.v # <<"[", "]">>
    /\ \E f \in files :
          /\ PyStr(f.name) = row.source_file
          /\ WellFormed(f)
          /\ \E r \in Flattened(f) :
                /\ ~IsRaise(r)
                /\ DbRow(r) = Columns(row)
                /\ validate_record(r).ok

\* (C3) Every shapelets row the pipeline stores is the row of a record of the
\* input that passed validate_record: its year is in [1900, 2100], its
\* length_days is at least 1, its end_date is not before its start_date and
\* its shapelet_values array is not empty. Stated on the steps: a step keeps
\* the rows there are and adds only such rows, to a store that starts empty.
C3_OnlyValidRowsStored ==
    [][ /\ Len(db'.shapelets) >= Len(db.shapelets)
        /\ SubSeq(db'.shapelets, 1, Len(db.shapelets)) = db.shapelets
        /\ \A i \in (Len(db.shapelets) + 1)..Len(db'.shapelets) :
              RowOfValidRecord(db'.shapelets[i]) ]_vars

\* a run that met records failing validation and stored the valid one
C3_Witness ==
    /\ Len(runLog) >= 1
    /\ runLog[1].outcome = "done"
    /\ ~runLog[1].dry_run
    /\ runLog[1].total_errors = 2
    /\ runLog[1].rows = 1

\* (C4) A file whose name fails the filename grammar, or that fails to load,
\* is skipped: nothing is written for it, the error count grows by exactly
\* one, and the loop goes on with the next file.
C4_SkipAndCount ==
    [][ ( /\ pc = "loop"
          /\ run.idx <= Len(run.selected)
          /\ FailsEarly(run.selected[run.idx]) )
        => ( /\ db' = db
             /\ disk' = disk
             /\ run'.total_errors = run.total_errors + 1
             /\ run'.total_valid = run.total_valid
             /\ run'.idx = run.idx + 1
             /\ run'.selected = run.selected
             /\ pc' = "loop" ) ]_vars

\* a name failure and a load failure skipped one after the other
C4_Witness ==
    /\ pc = "loop"
    /\ run.idx = 3
    /\ IsRaise(parse_filename(run.selected[1].name))
    /\ ~IsRaise(parse_filename(run.selected[2].name))
    /\ IsRaise(load_from_path(run.selected[2]))
    /\ run.total_errors = 2

\* (C5) A shapelet dictionary that lacks a key or holds a value that cannot
\* be coerced aborts neither its container nor the run: the run goes on, and
\* the other shapelets of the container are validated and, when valid, stored.
C5_BadShapeletContained ==
    \A i \in 1..Len(runLog) :
        /\ runLog[i].outcome = "aborted"
              => ~HasBadShapelet(runLog[i].selected[runLog[i].at])
        /\ (runLog[i].outcome = "done" /\ ~runLog[i].dry_run /\ i = Len(runLog))
              => \A k \in 1..Len(runLog[i].selected) :
                    HasBadShapelet(runLog[i].selected[k])
                    => \A r \in GoodRecords(runLog[i].selected[k]) :
                          Stored(db.shapelets, r)

\* (C6) Whatever the files contain, an invocation that started its loop over
\* the files ends by finalizing; no file content makes it end otherwise.
C6_AlwaysFinalizes ==
    \A i \in 1..Len(runLog) :
        runLog[i].outcome \in {"done", "exit0", "exit1"}

\* (C7) Every invocation that created an ingestion_runs row has, once it has
\* ended, updated that row exactly once: finished_at is set and the status is
\* no longer running.
C7_AuditRowClosedOnce ==
    \A i \in 1..Len(runLog) :
        (Ended(runLog[i]) /\ runLog[i].run_id # 0)
        => /\ runLog[i].finish_calls = 1
           /\ AuditRow(runLog[i].run_id).status # "running"
           /\ AuditRow(runLog[i].run_id).finished_at # PyNone

\* every selected file that is not skipped holds only valid shapelets, and
\* no (dataset_key, shapelet_id) occurs twice among the records of the run
AllValidDistinct(selected) ==
    \A F \in {{selected[k] : k \in 1..Len(selected)}} :
    \A G \in {{f \in F : ~FailsEarly(f)}} :
        /\ Cardinality(F) = Len(selected)
        /\ \A f \in G :
              /\ WellFormed(f)
              /\ \A r \in Flattened(f) : ~IsRaise(r) /\ validate_record(r).ok
        /\ \A K \in {{<<f, r.dataset_key, r.shapelet_id>> :
                           <<f, r>> \in UNION {{f} \X Flattened(f) : f \in G}}} :
              /\ \A x, y \in K : (x[2] = y[2] /\ x[3] = y[3]) => x[1] = y[1]
              /\ \A f \in G :
                    Cardinality({x \in K : x[1] = f})
                    = Len(load_from_path(f).v[1][2].v)

\* (C8) After a run that writes, on a store with no shapelets, over files
\* whose shapelets are all valid and distinct in (dataset_key, shapelet_id),
\* the number of shapelets rows equals the total_rows of the run's audit row
\* and the number of records that passed validation.
C8_AuditTotalsMatchStore ==
    \A i \in 1..Len(runLog) :
        ( /\ runLog[i].outcome = "done"
          /\ ~runLog[i].dry_run
          /\ runLog[i].start_rows = 0
          /\ AllValidDistinct(runLog[i].selected) )
        => /\ runLog[i].rows = runLog[i].total_valid
           /\ AuditRow(runLog[i].run_id).total_rows = runLog[i].total_valid

\* three valid shapelets: three rows, total_rows = 3
C8_Witness ==
    /\ Len(runLog) = 1
    /\ runLog[1].outcome = "done"
    /\ ~runLog[1].dry_run
    /\ AllValidDistinct(runLog[1].selected)
    /\ Len(runLog[1].selected) = 2
    /\ runLog[1].total_valid = 3
    /\ Len(db.shapelets) = 3
    /\ AuditRow(runLog[1].run_id).total_rows = 3

Consistent(d) ==
    \A i \in 1..Len(d.shapelets) :
        /\ \A c \in NotNullColumns : d.shapelets[i][c] # PyNone
        /\ \E site \in d.sites : site.site_key = d.shapelets[i].site_key

\* (C10, as stated) When the process stops after k batches of one
\* insert_shapelets call, the rows of those k batches are in the store.
C10_BatchesDurable ==
    (last.kind = "stopped" /\ call.phase = "idle")
    => \A k \in 1..Min(last.batches * last.batch_size, Len(last.records)) :
          Stored(db.shapelets, last.records[k])

\* (C10, amended) insert_shapelets commits once, after its last batch: when
\* the process stops inside a call, after any number of its batches, the
\* store is what it was before the call, and the committed store is always
\* internally consistent.
C10_CommitOncePerCall ==
    /\ Consistent(disk)
    /\ (last.kind = "stopped" /\ call.phase = "idle")
          => (db = last.before /\ disk = last.before)

\* the process stopped between the batches of a call
C10_Witness ==
    /\ last.kind = "stopped"
    /\ call.phase = "idle"
    /\ last.batches >= 1
    /\ last.batches * last.batch_size < Len(last.records)

\* the direct upsert_site calls so far that used the site key of call i
SameKeyCalls(i) ==
    {j \in 1..Len(probe.site_calls) :
        SiteKey(probe.site_calls[j]) = SiteKey(probe.site_calls[i])}

FirstSighting(i) ==
    probe.site_calls[CHOOSE j \in SameKeyCalls(i) : \A k \in SameKeyCalls(i) : j <= k]

LastSighting(i) ==
    probe.site_calls[CHOOSE j \in SameKeyCalls(i) : \A k \in SameKeyCalls(i) : j >= k]

\* (C11) After any sequence of upsert_site calls there is exactly one sites
\* row per composite key; its latitude and longitude are those of the most
\* recent call with that key, its state, county and site_num those of the
\* first call with that key; and the call returns the composite key.
C11_UpsertSiteSemantics ==
    (probe.kind = "writer" /\ ~probe.inserted)
    => /\ \A i \in 1..Len(probe.site_calls) :
             /\ Cardinality({s \in db.sites :
                   s.site_key = PyStr(SiteKey(probe.site_calls[i]))}) = 1
             /\ \A s \in db.sites :
                   s.site_key = PyStr(SiteKey(probe.site_calls[i]))
                   => /\ s.latitude = LastSighting(i).latitude
                      /\ s.longitude = LastSighting(i).longitude
                      /\ s.state = FirstSighting(i).state
                      /\ s.county = FirstSighting(i).county
                      /\ s.site_num = FirstSighting(i).site_num
       /\ \A s \in db.sites :
             \E i \in 1..Len(probe.site_calls) :
                s.site_key = PyStr(SiteKey(probe.site_calls[i]))
       /\ probe.op = "upsert_site"
             => \E s \in db.sites :
                   /\ s.site_key = probe.ret
                   /\ s.latitude =
                         probe.site_calls[Len(probe.site_calls)].latitude

\* two calls with one key that differ in state, county and latitude
C11_Witness ==
    /\ probe.kind = "writer"
    /\ ~probe.inserted
    /\ probe.op = "upsert_site"
    /\ \E i, j \in 1..Len(probe.site_calls) :
          /\ i < j
          /\ SiteKey(probe.site_calls[i]) = SiteKey(probe.site_calls[j])
          /\ probe.site_calls[i].state # probe.site_calls[j].state
          /\ probe.site_calls[i].latitude # probe.site_calls[j].latitude

\* (C12) Pollutants rows are inserted if absent and never updated: no call
\* of upsert_pollutant or insert_shapelets changes or removes a pollutants
\* row that existed before it (its name and unit stay), there is at most one
\* row per parameter code, and upsert_pollutant with a null code changes
\* nothing.
C12_PollutantsInsertIfAbsent ==
    [][ /\ \A p \in db.pollutants : p \in db'.pollutants
        /\ \A p, q \in db'.pollutants :
              p.parameter_code = q.parameter_code => p = q
        /\ (probe'.op = "upsert_pollutant" /\ probe'.arg = PyNone)
              => db' = db ]_vars

\* a named row, one upsert_pollutant call on its code and one insert_shapelets
\* call that met the code again
C12_Witness ==
    /\ probe.kind = "writer"
    /\ NamedPollutant \in db.pollutants
    /\ probe.op = "upsert_pollutant"
    /\ probe.arg = NamedPollutant.parameter_code
    /\ probe.inserted
    /\ \E i \in 1..Len(db.shapelets) :
          db.shapelets[i].parameter_code = NamedPollutant.parameter_code

Validated == probe.kind = "validator" /\ probe.done

SchemaOf(field) ==
    CHOOSE e \in {Schema[i] : i \in 1..Len(Schema)} : e.field = field

\* the runtime types that are the declared type itself
Native(ty) == IF ty = "float" THEN {"float", "float64"} ELSE {ty}

\* the value has the declared type of the field, or is null in an optional field
Matches(value, field) ==
    \/ value = PyNone /\ ~SchemaOf(field).required
    \/ \E i \in 1..Len(SchemaOf(field).expected) :
          value.t \in Native(SchemaOf(field).expected[i])

Typed(record, field) ==
    field \in DOMAIN record /\ record[field] # PyNone
    /\ Matches(record[field], field)

\* the domain violations the record triggers, by the text that opens each
TriggeredDomain(record) ==
    {k \in {"year out of range", "length_days must be >= 1",
            "latitude out of range", "longitude out of range",
            "end_date is before start_date", "shapelet_values is empty"} :
        CASE k = "year out of range" ->
                Typed(record, "year")
                /\ ~(YearMin <= record.year.v /\ record.year.v <= YearMax)
          [] k = "length_days must be >= 1" ->
                Typed(record, "length_days")
                /\ record.length_days.v < LengthDaysMin
          [] k = "latitude out of range" ->
                Typed(record, "latitude")
                /\ ~(-LatitudeMax * 10000 <= record.latitude.v
                     /\ record.latitude.v <= LatitudeMax * 10000)
          [] k = "longitude out of range" ->
                Typed(record, "longitude")
                /\ ~(-LongitudeMax * 10000 <= record.longitude.v
                     /\ record.longitude.v <= LongitudeMax * 10000)
          [] k = "end_date is before start_date" ->
                Typed(record, "start_date") /\ Typed(record, "end_date")
                /\ DateLess(record.end_date, record.start_date)
          [] k = "shapelet_values is empty" ->
                Typed(record, "shapelet_values")
                /\ record.shapelet_values.v = <<>>}

\* presence violations first, then type violations, then domain violations
KindRank(kind) ==
    CASE kind = "missing required field" -> 1
      [] kind = "expected" -> 2
      [] OTHER -> 3

About(errors, field, kind) ==
    {i \in 1..Len(errors) : errors[i].field = field /\ errors[i].kind = kind}

\* (C13) For every record validate_record returns a verdict and a list; the
\* verdict is pass exactly when the list is empty; the list holds every
\* violation the record triggers, presence violations first, then type
\* violations, then domain violations.
C13_VerdictAndAccumulation ==
    Validated
    => /\ ~IsRaise(probe.result)
       /\ probe.result.ok <=> (probe.result.errors = <<>>)
       /\ \A i, j \in 1..Len(probe.result.errors) :
             i < j => KindRank(probe.result.errors[i].kind)
                      <= KindRank(probe.result.errors[j].kind)
       /\ \A f \in FieldNames :
             (SchemaOf(f).required /\ f \notin DOMAIN probe.record)
             => About(probe.result.errors, f, "missing required field") # {}
       /\ \A f \in FieldNames \cap DOMAIN probe.record :
             ~IsInstance(probe.record[f], SchemaOf(f).expected \o <<"NoneType">>)
             => About(probe.result.errors, f, "expected") # {}
       /\ \A k \in TriggeredDomain(probe.record) :
             \E i \in 1..Len(probe.result.errors) :
                probe.result.errors[i].kind = k

\* (C14) For every record and every required field absent from it, the list
\* holds exactly one `missing required field` entry for the field and no type
\* or domain violation about it; an absent optional field yields no violation.
C14_MissingFields ==
    Validated
    => /\ ~IsRaise(probe.result)
       /\ \A f \in FieldNames \ DOMAIN probe.record :
             /\ Cardinality(About(probe.result.errors, f, "missing required field"))
                = IF SchemaOf(f).required THEN 1 ELSE 0
             /\ \A i \in 1..Len(probe.result.errors) :
                   probe.result.errors[i].field = f
                   => probe.result.errors[i].kind = "missing required field"

AllPresentAndTyped(record) == \A f \in FieldNames : Typed(record, f)

\* (C15) For a record whose fields are all present and correctly typed,
\* validation passes exactly when every field is inside its domain, limits
\* included; and a domain check is evaluated only when its field is present
\* and correctly typed: validation reports a domain violation only for such
\* a field, and evaluates no comparison on any other.
C15_DomainChecks ==
    Validated
    => /\ AllPresentAndTyped(probe.record)
             => /\ ~IsRaise(probe.result)
                /\ probe.result.ok <=> (TriggeredDomain(probe.record) = {})
       /\ ~IsRaise(probe.result)
       /\ \A i \in 1..Len(probe.result.errors) :
             KindRank(probe.result.errors[i].kind) = 3
             => probe.result.errors[i].kind \in TriggeredDomain(probe.record)

\* (C16) For every field present in a record, a type violation is reported
\* exactly when the value's type is not the declared type; null is accepted
\* in the optional fields only.
C16_TypeConformance ==
    Validated
    => /\ ~IsRaise(probe.result)
       /\ \A f \in FieldNames \cap DOMAIN probe.record :
             (About(probe.result.errors, f, "expected") # {})
             <=> ~Matches(probe.record[f], f)

\* (C17) Every shapelet dictionary that holds all expected keys with values
\* inside the declared domains, with a provenance string or null, is
\* normalized without error to a record that validate_record accepts with an
\* empty violation list.
C17_NormalizeThenValidate ==
    probe.kind = "normalize"
    => /\ probe.stage # "raw" => ~IsRaise(probe.record)
       /\ probe.stage = "checked"
             => /\ ~IsRaise(probe.result)
                /\ probe.result.ok
                /\ probe.result.errors = <<>>

\* a dictionary with a numpy latitude on the limit, a datetime start, a
\* datetime end later the same day, and no provenance
C17_Witness ==
    /\ probe.kind = "normalize"
    /\ probe.stage = "checked"
    /\ probe.source_file = PyNone
    /\ probe.raw.latitude = NpFloat(LatitudeMax * 10000)
    /\ probe.raw.start_date.t = "datetime"
    /\ probe.raw.end_date = PyDateTime(2010, 1, 1, 0)
    /\ probe.raw.site_num.t = "int64"

\* the name follows the filename grammar, with either supported extension
SupportedName(f) ==
    /\ Lower(Suffix(f.name)) \in {DotPkl, DotZip}
    /\ ~IsRaise(parse_filename(SubSeq(f.name, 1, Len(f.name) - 4) \o DotPkl))

\* the records of a loaded one-key container, normalized one by one
RecordsOf(f, data) ==
    {flatten_shapelet(data.v[1][1], data.v[1][2].v[n], PyStr(f.name)) :
        n \in 1..Len(data.v[1][2].v)}

\* one dataset key, a sequence of shapelets, each normalizing to a valid record
ValidContainer(f, data) ==
    /\ ~IsRaise(data)
    /\ data.t = "dict"
    /\ Len(data.v) = 1
    /\ data.v[1][1].t = "str"
    /\ data.v[1][2].t = "list"
    /\ data.v[1][2].v # <<>>
    /\ \A r \in RecordsOf(f, data) : ~IsRaise(r) /\ validate_record(r).ok

\* (C18) A discovered .pkl file, or .zip archive whose first .pkl member is
\* used, that holds a valid container has its records in the store once a
\* writing invocation that selected it is done.
C18_BothFormatsIngested ==
    \A i \in 1..Len(runLog) :
        (runLog[i].outcome = "done" /\ ~runLog[i].dry_run /\ i = Len(runLog))
        => \A k \in 1..Len(runLog[i].selected) :
              ( /\ SupportedName(runLog[i].selected[k])
                /\ ValidContainer(runLog[i].selected[k],
                                  load_from_path(runLog[i].selected[k])) )
              => \A r \in RecordsOf(runLog[i].selected[k],
                                    load_from_path(runLog[i].selected[k])) :
                    \E n \in 1..Len(db.shapelets) :
                        RowKey(db.shapelets[n]) = RowKey(DbRow(r))

\* (C19) With the dry-run flag set, no step of the invocation opens the
\* store or changes it: no sites, pollutants, shapelets or ingestion_runs row
\* is written, while the files are still parsed and validated.
C19_DryRunWritesNothing ==
    [][ ( \/ pc = "idle" /\ args'.dry_run
          \/ pc = "loop" /\ args.dry_run )
        => ( /\ db' = db
             /\ disk' = disk
             /\ ~run'.conn
             /\ run'.run_id = 0 ) ]_vars

\* a dry run over a file with valid records, ended on a store that an
\* earlier writing invocation had filled
C19_Witness ==
    /\ Len(runLog) = 2
    /\ ~runLog[1].dry_run /\ runLog[1].outcome = "done" /\ runLog[1].rows >= 2
    /\ runLog[2].dry_run /\ runLog[2].outcome = "done"
    /\ runLog[2].total_valid >= 2
    /\ runLog[2].total_errors >= 1
    /\ runLog[2].rows = runLog[1].rows
    /\ Len(db.ingestion_runs) = 1

\* (C20) When a limit N >= 0 is given, the invocation processes at most N
\* files, the first N of the sorted discovery order, and records that number
\* as total_files.
C20_LimitBoundsFiles ==
    /\ (pc = "loop" /\ args.limit # PyNone)
          => run.selected = SubSeq(discover_files(files), 1,
                                   Min(args.limit.v, Len(discover_files(files))))
    /\ \A i \in 1..Len(runLog) :
          (runLog[i].limit # PyNone)
          => /\ Len(runLog[i].selected) <= runLog[i].limit.v
             /\ runLog[i].at <= runLog[i].limit.v + 1
             /\ runLog[i].selected =
                   SubSeq(discover_files(files), 1,
                          Min(runLog[i].limit.v, Len(discover_files(files))))
             /\ (runLog[i].outcome = "done" /\ runLog[i].run_id # 0)
                   => AuditRow(runLog[i].run_id).total_files =
                         Len(runLog[i].selected)

\* the parts are those of a name of the filename grammar
FilenameForm(p) ==
    /\ p.state # <<>>
    /\ p.county # <<>> /\ \A i \in 1..Len(p.county) : p.county[i] \in Letters \cup {" "}
    /\ IsDigit(p.site_num)
    /\ p.mid = ShapeletsPkl
    /\ IsDigit(p.year) /\ Len(p.year) = 4
    /\ IsDigit(p.chunk) /\ Len(p.chunk) = 3
    /\ p.ext = DotPkl
    /\ p.tail = <<>>

\* the string can be cut into parts of the filename grammar
NameOfForm(name) ==
    \E a, b \in 2..Len(name) :
        /\ a < b
        /\ name[a] = "_" /\ name[b] = "_"
        /\ \E c \in (b + 2)..Len(name) :
              /\ c + 26 = Len(name)
              /\ FilenameForm([state |-> SubSeq(name, 1, a - 1),
                               county |-> SubSeq(name, a + 1, b - 1),
                               site_num |-> SubSeq(name, b + 1, c - 1),
                               mid |-> SubSeq(name, c, c + 14),
                               year |-> SubSeq(name, c + 15, c + 18),
                               chunk |-> SubSeq(name, c + 20, c + 22),
                               ext |-> SubSeq(name, c + 23, c + 26),
                               tail |-> <<>>])
              /\ name[c + 19] = "_"

\* (C21) A filename {State}_{County}_{SiteNum}_shapelets.pkl_{Year}_{Chunk}.pkl
\* parses to exactly its components, site_num, year and chunk as integers;
\* every other string fails with the pattern-mismatch error.
C21_FilenameParsing ==
    (probe.kind = "parser" /\ probe.fn = "parse_filename" /\ probe.done)
    => /\ FilenameForm(probe.parts)
             => probe.result =
                   [state |-> PyStr(probe.parts.state),
                    county |-> PyStr(probe.parts.county),
                    site_num |-> PyInt(StrToNat(probe.parts.site_num)),
                    year |-> PyInt(StrToNat(probe.parts.year)),
                    chunk |-> PyInt(StrToNat(probe.parts.chunk))]
       /\ ~NameOfForm(probe.input) => probe.result = Raise("ValueError")

\* the parts are those of a key of the dataset-key grammar
DatasetKeyForm(p) ==
    /\ p.state # <<>>
    /\ p.county # <<>> /\ \A i \in 1..Len(p.county) : p.county[i] \in Letters \cup {" "}
    /\ IsDigit(p.site_num)
    /\ p.frequency # <<>>
    /\ \A i \in 1..Len(p.frequency) : p.frequency[i] \in {LowerLetters[k] : k \in 1..26}
    /\ IsDigit(p.parameter_code)
    /\ p.duration # <<>>
    /\ \A i \in 1..Len(p.duration) : p.duration[i] \in Letters \cup Digits
    /\ IsDigit(p.year) /\ Len(p.year) = 4
    /\ p.agg_method # <<>>

\* (C22) For a key of the dataset-key grammar, whatever underscore-delimited
\* tokens its aggregation method holds, parse_dataset_key returns the Year
\* token as year, the Duration token as duration and everything after the
\* Year token, unsplit, as agg_method.
C22_AggMethodWhole ==
    ( /\ probe.kind = "parser" /\ probe.fn = "parse_dataset_key" /\ probe.done
      /\ DatasetKeyForm(probe.parts) )
    => /\ ~IsRaise(probe.result)
       /\ probe.result.year = PyInt(StrToNat(probe.parts.year))
       /\ probe.result.duration = PyStr(probe.parts.duration)
       /\ probe.result.agg_method = PyStr(probe.parts.agg_method)

\* the first token of the underscore-split string that is all digits, or None
FirstNumericToken(s) ==
    LET parts == Split(s)
        numeric == {i \in 1..Len(parts) : IsDigit(parts[i])}
    IN  IF numeric = {} THEN PyNone
        ELSE PyStr(parts[CHOOSE i \in numeric : \A j \in numeric : i <= j])

\* (C23) The code extracted from a pattern_type is its first all-digit token
\* in left-to-right order of the underscore-split string, None when there is
\* none, and the stored shapelets row carries that value as parameter_code.
C23_FirstNumericToken ==
    (probe.kind = "parser" /\ probe.fn = "extract_param_code" /\ probe.done)
    => /\ probe.result = FirstNumericToken(probe.input)
       /\ Len(probe.rows) = 1
       /\ probe.rows[1].parameter_code = FirstNumericToken(probe.input)
       /\ probe.rows[1].pattern_type = PyStr(probe.input)

\* two different numeric tokens after a token that is not numeric
C23_Witness ==
    /\ probe.kind = "parser" /\ probe.fn = "extract_param_code" /\ probe.done
    /\ probe.input = <<"4", "x", "_", "7", "_", "4", "2">>
    /\ probe.result = PyStr(<<"7">>)
    /\ probe.rows[1].parameter_code = PyStr(<<"7">>)

\* the value is one of the values of the list
InList(value, list) == \E i \in 1..Len(list.v) : list.v[i] = value

\* the row passes the six filters, the filters of Off imposing no restriction
Passes(row, f, Off(_)) ==
    /\ Off(f.years) \/ InList(row.year, f.years)
    /\ Off(f.sites) \/ InList(row.site_key, f.sites)
    /\ Off(f.pollutants) \/ InList(row.parameter_code, f.pollutants)
    /\ Off(f.pattern_types) \/ InList(row.pattern_type, f.pattern_types)
    /\ Off(f.date_from) \/ ~SqlTextLess(row.start_date.v, f.date_from.v)
    /\ Off(f.date_to) \/ ~SqlTextLess(f.date_to.v, row.end_date.v)

\* the result holds exactly the shapelets rows that pass, each once, with
\* their own columns, and the store is what it was
SelectsExactly(Off(_)) ==
    /\ db = probe.before
    /\ \A i, j \in 1..Len(probe.result) :
          i # j => probe.result[i].id # probe.result[j].id
    /\ \A i \in 1..Len(probe.result) :
          \E n \in 1..Len(db.shapelets) :
             /\ db.shapelets[n].id = probe.result[i].id
             /\ \A c \in DOMAIN db.shapelets[n] :
                   probe.result[i][c] = db.shapelets[n][c]
    /\ \A n \in 1..Len(db.shapelets) :
          Passes(db.shapelets[n], probe.filters, Off)
          <=> \E i \in 1..Len(probe.result) :
                 probe.result[i].id = db.shapelets[n].id

Omitted(val) == val = PyNone

OmittedOrEmpty(val) == val = PyNone \/ val.v = <<>>

\* (C24, as stated) The rows selected by build_export_query are exactly the
\* shapelets rows that pass every filter given, an omitted filter imposing no
\* restriction; each row appears at most once and the store is not modified.
C24_FilteredExport ==
    probe.kind = "export" => SelectsExactly(Omitted)

\* (C24, amended) The rows selected are exactly the shapelets rows that pass
\* every filter given, a filter that is omitted or empty (an empty list, an
\* empty date string) imposing no restriction; each row appears at most once
\* and the store is not modified.
C24_EmptyFilterIsNoFilter ==
    probe.kind = "export" => SelectsExactly(OmittedOrEmpty)

\* an export that keeps one of three rows, by pattern type and end date, with
\* an empty site list
C24_Witness ==
    /\ probe.kind = "export"
    /\ Len(db.shapelets) >= 2
    /\ probe.filters.sites = PyList(<<>>)
    /\ probe.filters.pattern_types # PyNone
    /\ probe.filters.date_from # PyNone /\ probe.filters.date_from.v # <<>>
    /\ Len(probe.result) = 1
    /\ probe.result[1].pattern_type = PyStr(<<"d", "_", "7">>)

\* (C25) init_db on a store that holds the four tables leaves every row of
\* pollutants, sites, shapelets and ingestion_runs as it is, so the steps of
\* a later invocation only add to what an earlier one stored: opening the
\* store changes no row, and no step removes a shapelets, pollutants or sites
\* row or changes a shapelets row.
C25_InitDbKeepsRows ==
    [][ /\ init_db(db) = db
        /\ Len(db'.shapelets) >= Len(db.shapelets)
        /\ SubSeq(db'.shapelets, 1, Len(db.shapelets)) = db.shapelets
        /\ db.pollutants \subseteq db'.pollutants
        /\ {si.site_key : si \in db.sites} \subseteq {si.site_key : si \in db'.sites}
        /\ Len(db'.ingestion_runs) >= Len(db.ingestion_runs)
        /\ pc = "idle"
              => /\ db'.sites = db.sites
                 /\ db'.shapelets = db.shapelets
                 /\ SubSeq(db'.ingestion_runs, 1, Len(db.ingestion_runs))
                       = db.ingestion_runs ]_vars

\* a second writing invocation has opened the store the first one filled
C25_Witness ==
    /\ Len(runLog) = 1
    /\ runLog[1].outcome = "done" /\ ~runLog[1].dry_run /\ runLog[1].rows >= 2
    /\ pc = "loop"
    /\ ~args.dry_run
    /\ run.run_id = 2
    /\ Len(db.shapelets) = runLog[1].rows
    /\ Len(db.ingestion_runs) = 2
    /\ db.ingestion_runs[1].status = "completed"

\* the last record of the list that has the site key of records[k]
LastOfSite(records, k) ==
    records[CHOOSE j \in 1..Len(records) :
               /\ SiteKey(records[j]) = SiteKey(records[k])
               /\ \A i \in 1..Len(records) :
                     SiteKey(records[i]) = SiteKey(records[k]) => i <= j]

\* (C26) After insert_shapelets(records, batch_size), for every site key in
\* records the sites row holds the latitude and longitude of the last record
\* of the list with that key, in one batch or across batches.
C26_LastSightingWinsInCall ==
    last.kind = "returned"
    => \A k \in 1..Len(last.records) :
          \E si \in db.sites :
             /\ si.site_key = PyStr(SiteKey(last.records[k]))
             /\ si.latitude = LastOfSite(last.records, k).latitude
             /\ si.longitude = LastOfSite(last.records, k).longitude

\* every shapelets row of the store has its sites row and, when its
\* parameter_code is not null, its pollutants row
References(d) ==
    \A i \in 1..Len(d.shapelets) :
        /\ \E si \in d.sites : si.site_key = d.shapelets[i].site_key
        /\ d.shapelets[i].parameter_code # PyNone
              => \E p \in d.pollutants :
                    p.parameter_code = d.shapelets[i].parameter_code

\* (C27) In every state reachable through insert_shapelets, between the
\* statements of a batch too, every shapelets row references an existing
\* sites row and, when its parameter_code is not null, an existing pollutants
\* row; the rows a batch is about to insert have theirs already.
C27_ReferentialIntegrity ==
    /\ References(db)
    /\ References(disk)
    /\ call.phase = "exec"
          => \A k \in 1..Len(call.db_rows) :
                /\ \E si \in db.sites : si.site_key = call.db_rows[k].site_key
                /\ call.db_rows[k].parameter_code # PyNone
                      => \E p \in db.pollutants :
                            p.parameter_code = call.db_rows[k].parameter_code

\* between the second and third statement of a second batch, the first
\* batch's row with a pollutant code in place
C27_Witness ==
    /\ call.phase = "exec"
    /\ call.batches = 1
    /\ Len(db.shapelets) = 1
    /\ db.shapelets[1].parameter_code # PyNone
    /\ Len(call.db_rows) = 1
    /\ call.db_rows[1].site_key # db.shapelets[1].site_key
    /\ call.db_rows[1].parameter_code = PyNone

\* the batches of a list, one after the other
RECURSIVE Batches(_, _, _)
Batches(records, start, batch_size) ==
    IF start >= Len(records) THEN <<>>
    ELSE <<Chunk(records, start, batch_size)>>
         \o Batches(records, start + batch_size, batch_size)

RECURSIVE Concat(_)
Concat(seqs) == IF seqs = <<>> THEN <<>> ELSE Head(seqs) \o Concat(Tail(seqs))

\* (C29) insert_shapelets gives the same sites, pollutants and shapelets and
\* the same return value for every positive batch size, and its batches hold
\* every input record exactly once, in input order.
C29_BatchSizeIrrelevant ==
    last.kind = "returned"
    => \A b \in 1..(MaxBatch + 1) :
          /\ insert_shapelets(last.before, last.records, b).db = db
          /\ insert_shapelets(last.before, last.records, b).ret = last.ret
          /\ Concat(Batches(last.records, 0, b)) = last.records
          /\ \A k \in 1..Len(Batches(last.records, 0, b)) :
                Len(Batches(last.records, 0, b)[k]) \in 1..b

\* a call in batches of one, on two records of one site seen at different
\* latitudes, onto a store that already held a row
C29_Witness ==
    /\ last.kind = "returned"
    /\ last.batch_size = 1
    /\ last.batches = 2
    /\ Len(last.before.shapelets) >= 1
    /\ SiteKey(last.records[1]) = SiteKey(last.records[2])
    /\ last.records[1].latitude # last.records[2].latitude

\* the loaded mapping with its first key replaced: by a key of the grammar
\* when it is not one, by an opaque key when it is
SwapKey(data) ==
    Dict(<< <<IF IsRaise(parse_dataset_key(data.v[1][1].v)) THEN KeyGrammar ELSE KeyA,
              data.v[1][2]>> >> \o Tail(data.v))

\* no earlier file has written to the store
Unwritten(d) == d.shapelets = <<>> /\ d.sites = {} /\ d.pollutants = {}

\* the same counters and outcome, the same rows but for dataset_key
SameButKey(x, y) ==
    /\ x.run = y.run
    /\ x.db.sites = y.db.sites
    /\ x.db.pollutants = y.db.pollutants
    /\ Len(x.db.shapelets) = Len(y.db.shapelets)
    /\ \A n \in 1..Len(x.db.shapelets) :
          [c \in (DOMAIN x.db.shapelets[n]) \ {"dataset_key"} |-> x.db.shapelets[n][c]]
          = [c \in (DOMAIN y.db.shapelets[n]) \ {"dataset_key"} |-> y.db.shapelets[n][c]]

\* the file at hand passes steps 1 and 2 and holds a mapping with a string key
StringKeyed(f) ==
    /\ ~IsRaise(parse_filename(f.name))
    /\ ~IsRaise(load_from_path(f))
    /\ load_from_path(f).t = "dict"
    /\ load_from_path(f).v # <<>>
    /\ load_from_path(f).v[1][1].t = "str"

\* (C28) Whether or not the outer dataset key, a string, matches the
\* dataset-key grammar, a loaded container gives the same normalized,
\* validated and written records and the same counters: the step on a store
\* not yet written to equals, but for dataset_key, the step on the same
\* container with its key swapped for one of the other kind; a key that does
\* not match adds no error, and the raw key is stored as dataset_key.
C28_KeyGrammarIrrelevant ==
    [][ ( /\ pc = "loop"
          /\ run.idx <= Len(run.selected)
          /\ StringKeyed(run.selected[run.idx]) )
        => \E data \in {load_from_path(run.selected[run.idx])} :
              /\ \A n \in (Len(db.shapelets) + 1)..Len(db'.shapelets) :
                    db'.shapelets[n].dataset_key = data.v[1][1]
              /\ Unwritten(db)
                    => \E swapped \in {IngestData(run, db, run.selected[run.idx],
                                                  SwapKey(data))} :
                          SameButKey([run |-> run', db |-> db'], swapped) ]_vars

\* one invocation has written the rows of a container whose key matches the
\* grammar and of one whose key does not
C28_Witness ==
    /\ pc = "loop"
    /\ run.idx = 3
    /\ \E n \in 1..Len(db.shapelets) : db.shapelets[n].dataset_key = KeyGrammar
    /\ \E n \in 1..Len(db.shapelets) : db.shapelets[n].dataset_key = KeyA
    /\ run.total_valid >= 2
    /\ run.total_errors = 2

\* (C30) Two records with different (state, county, site_num) have different
\* site keys, so every shapelets row written by insert_shapelets references a
\* sites row that holds the state, county and site_num of the record the row
\* was made from.
C30_SiteKeysIdentifySites ==
    [][ (probe'.op = "insert_shapelets")
        => /\ \A i, j \in 1..Len(probe'.arg.v) :
                 <<probe'.arg.v[i].state, probe'.arg.v[i].county,
                   probe'.arg.v[i].site_num>>
                 # <<probe'.arg.v[j].state, probe'.arg.v[j].county,
                     probe'.arg.v[j].site_num>>
                 => SiteKey(probe'.arg.v[i]) # SiteKey(probe'.arg.v[j])
           /\ \A n \in (Len(db.shapelets) + 1)..Len(db'.shapelets) :
                 \A k \in 1..Len(probe'.arg.v) :
                    DbRow(probe'.arg.v[k]) = Columns(db'.shapelets[n])
                    => \E si \in db'.sites :
                          /\ si.site_key = db'.shapelets[n].site_key
                          /\ si.state = probe'.arg.v[k].state
                          /\ si.county = probe'.arg.v[k].county
                          /\ si.site_num = probe'.arg.v[k].site_num ]_vars

====
